---- MODULE Spec2Model ----
(***************************************************************************)
(* Forest Explorer client: procedural world generator, chunk store         *)
(* (useWorldState) and player kinematics (useGameEngine).                  *)
(*                                                                         *)
(* Numbers.  The generator works on integers; a draw random() is kept as   *)
(* the integer LCG state s (the value is s / 233280).  Positions of the    *)
(* player are kept in units of 1 / PosScale of a world unit.               *)
(***************************************************************************)
EXTENDS Integers, Sequences, FiniteSets, TLC

(***************************************************************************)
(* GAME_CONFIG                                                             *)
(***************************************************************************)
viewportWidth == 1024
viewportHeight == 768
characterSize == 64
movementSpeedHalves == 5     \* movementSpeed 2.5, counted in halves
worldWidth == 5000
worldHeight == 5000
chunkSize == 500
renderDistance == 2

(***************************************************************************)
(* Bounds of the model                                                     *)
(***************************************************************************)
MaxGenCoord == 2      \* SpecGen generates chunks (0..MaxGenCoord)^2
MaxGen == 3           \* SpecGen: number of generateChunk calls
MaxSteps == 3         \* SpecWorld: number of position changes and deliveries
MoveWorld == 140      \* SpecMove: width and height of the world the engine is given
MaxTicks == 3         \* SpecMove: number of updatePlayerMovement calls
MaxKeyEvents == 2     \* SpecMove: number of key events
MaxSeed == 40         \* SpecRandom: seeds -MaxSeed..MaxSeed, and as many near 2^30
MaxAnimTicks == 5     \* SpecAnim: number of updatePlayerMovement calls
MaxAnimKeyEvents == 4 \* SpecAnim: number of key events
HitMargin == 33       \* SpecHitbox: positions from HitMargin units left of and above the world
MaxHitCoord == 94     \* SpecHitbox: to MaxHitCoord units
MaxMoveSteps == 5     \* SpecMove: frames and key events of a run, together
MaxClientSockets == 2 \* SpecClient: connect() calls made while not connected
MaxSockets == 4       \* SpecService: WebSockets created
MaxTimeouts == 3      \* SpecService: timers set in mock mode
MaxPoseChanges == 3   \* SpecPoseLive: changes of isMoving
MaxPoseEffects == 4   \* SpecPose: runs of the position update effect
MaxPoseTime == 210    \* SpecPose: ms of clock after PoseEpoch
MaxPlaceSeed == 11    \* SpecPlace: seeds 0..MaxPlaceSeed
MaxPlaceCount == 4    \* SpecPlace: elements requested, 1..MaxPlaceCount
MaxDraws == 3         \* SpecRandom: number of draws
TreeBatch == 500000   \* SpecIds: trees pushed by one run of generateTrees calls

\* Positions are kept in units of 1 / PosScale: 2.5 * dt / 16.67 is the
\* integer 5 * (100 * dt) in this unit.
PosScale == 3334

VARIABLES
  nextTreeId, nextBushId, nextFlowerId,   \* worldGenerator.ts id counters
  genChunk,                               \* SpecGen: result of the last generateChunk
  genCalls,                               \* SpecGen: number of calls made
  genLog,                                 \* SpecGen history: the chunks returned, in order
  rngSeed,               \* SpecRandom: the seed createSeededRandom was called with
  rngState,              \* SpecRandom: the state of the generator it returned
  rngDraws,              \* SpecRandom: number of calls of that generator
  hitInput,              \* SpecHitbox: the arguments of the checkCollision call
  hitResult,             \* SpecHitbox: what it returned
  poseClock,             \* SpecPose: Date.now(), in ms
  lastPositionUpdate,    \* Game: ref, the time the throttle last let an effect run through
  isConnected,           \* MultiplayerClient: isConnected
  poseEffects,           \* SpecPose history: the runs of the position update effect
  poseDue,               \* Game: a render changed a dependency of the effect, which has not run yet
  poseChanges,           \* SpecPoseLive: changes of isMoving so far
  service,               \* MultiplayerService: mockMode, isConnected, reconnectAttempts,
                         \*   reconnectTimeout (0 for null, else a timer), socket (0 for null)
  webSockets,            \* the WebSockets the service created, with the promise of their connect()
  timeouts,              \* the timers the service set with setTimeout
  disconnected,          \* history: disconnect() was called on the connected service, and
                         \*   connect() has not been called by the user since
  client,                \* MultiplayerClient: mockMode, playerId, username, socket (0 for
                         \*   null); its isConnected is the variable isConnected
  ioSockets,             \* the socket.io sockets the client created, with the id the server
                         \*   gave the player on each and the promise of their connect()
  players,               \* RemotePlayers: the keys of the players map
  handlerCalls,          \* history: the ids the player-join and player-move handlers got
  answered,              \* history: the socket on which the last step delivered the server's
                         \*   answer to connect(), or 0
  mockChunks,            \* SpecMock: the chunks generateMockChunks returned last
  mockCalls,             \* SpecMock: generateMockChunks calls so far
  placeArgs,             \* SpecPlace: the arguments of a generateTrees / generateBushes call
  placeState,            \* SpecPlace: its loop counter, generator state and elements pushed
  placeTries,            \* SpecPlace history: the position search of each pass of its loop
  visibleCamera,         \* SpecVisible: cameraPosition of the last getVisibleElements call
  visibleElements,       \* SpecVisible: its result
  loadedChunks,          \* useWorldState: state, chunk key -> chunk
  worldElements,         \* useWorldState: state, [trees, bushes, flowers]
  loadedChunksRef,       \* useWorldState: loadedChunksRef.current
  worldElementsRef,      \* useWorldState: worldElementsRef.current
  chunkUpdates,          \* setLoadedChunks calls not yet rendered, oldest first
  elementUpdates,        \* setWorldElements calls not yet rendered (the lists they append)
  playerPosition,        \* useGameEngine: state
  positionUpdates,       \* setPlayerPosition calls not yet rendered
  direction,             \* useGameEngine: state
  directionUpdates,      \* setDirection calls not yet rendered
  isMoving,              \* useGameEngine: state
  movingUpdates,         \* setIsMoving calls not yet rendered
  animationFrame,        \* useGameEngine: state
  frameUpdates,          \* setAnimationFrame calls not yet rendered: "next" or "reset"
  keysPressed,           \* useGameEngine: state, the keys whose entry is true
  collisionObjects,      \* useGameEngine: state
  animationTimer,        \* animationTimer.current, in 1/100 ms
  lastFrameTime,         \* lastFrameTime.current, in ms
  targetPosition,        \* targetPosition.current
  engineConfig,          \* the config useGameEngine was called with
  ticks,                 \* SpecMove: updatePlayerMovement calls so far
  keyEvents,             \* SpecMove: key events so far
  lastTick,              \* history: the last updatePlayerMovement call
  mounted,               \* the mount effects have run
  loggedIn,              \* Game: state, set by handleLogin once connected
  steps,                 \* SpecWorld: position changes and deliveries so far
  generateLog,           \* history: the keys generateChunk was called with, in order
  lastLoad,              \* history: the last loadChunks call
  lastMerge,             \* history: the last updateWithServerChunks call
  scheduledKeys          \* history: keys of the chunks passed to setLoadedChunks as new

genVars == <<genChunk, genCalls, genLog>>
rngVars == <<rngSeed, rngState, rngDraws>>
idVars == <<nextTreeId, nextBushId, nextFlowerId>>
worldVars == <<loadedChunks, worldElements, loadedChunksRef, worldElementsRef,
               chunkUpdates, elementUpdates, mounted, loggedIn, steps,
               generateLog, lastLoad, lastMerge, scheduledKeys>>
moveVars == <<direction, directionUpdates, isMoving, movingUpdates, animationFrame,
              frameUpdates, keysPressed, collisionObjects, animationTimer, lastFrameTime,
              targetPosition, engineConfig, ticks, keyEvents, lastTick>>
engineVars == <<playerPosition, positionUpdates, moveVars>>
viewVars == <<visibleCamera, visibleElements>>
placeVars == <<placeArgs, placeState, placeTries>>
mockVars == <<mockChunks, mockCalls>>
poseVars == <<poseClock, lastPositionUpdate, isConnected, poseEffects, poseDue, poseChanges>>
hitVars == <<hitInput, hitResult>>
serviceVars == <<service, webSockets, timeouts, disconnected>>
clientVars == <<client, ioSockets, players, handlerCalls, answered>>
vars == <<idVars, genVars, rngVars, viewVars, placeVars, mockVars, hitVars, poseVars, serviceVars, clientVars,
          worldVars,
          engineVars>>

(***************************************************************************)
(* worldGenerator.ts                                                       *)
(***************************************************************************)
\* One step of the seeded generator: the new state (state * 9301 + 49297) % 233280;
\* random() returns it / 233280.  The remainder % of the program takes the
\* sign of the dividend: for a negative state whose product plus 49297 is
\* negative, it is minus the remainder of the absolute value.  The product is taken in two parts, 9301 =
\* 93 * 100 + 1, on the state reduced modulo 233280, so that no intermediate
\* value leaves 32 bits (the doubles of the program hold the product exactly).
createSeededRandom(state) ==
  IF state >= 0
  THEN LET r == state % 233280
       IN  (((r * 93) % 233280) * 100 + r + 49297) % 233280
  ELSE IF -state <= 49297 \div 9301
       THEN state * 9301 + 49297
       ELSE LET r == (-state) % 233280
            IN  -((((r * 93) % 233280) * 100 + r + 233280 - 49297) % 233280)

\* The generator state after n draws from state s (n draws are n \div 2 draws
\* followed by the rest).
RECURSIVE afterDraws(_, _)
afterDraws(s, n) ==
  IF n = 0 THEN s
  ELSE IF n = 1 THEN createSeededRandom(s)
  ELSE CHOOSE r \in {afterDraws(half, n - n \div 2) : half \in {afterDraws(s, n \div 2)}} :
         TRUE

\* The draws (state, m) for which the double product (state / 233280) * m
\* rounds to just below the integer state * m / 233280.
floorRoundedDown ==
  { <<4032, 405>>, <<8064, 405>>, <<16128, 405>>, <<29376, 405>>, <<32256, 405>>,
    <<58752, 405>>, <<59616, 450>>, <<61632, 405>>, <<64512, 405>>, <<67068, 400>>,
    <<67392, 405>>, <<117504, 405>>, <<119232, 405>>, <<119232, 450>>,
    <<119556, 400>>, <<123264, 405>>, <<124992, 405>>, <<126360, 408>>,
    <<126360, 456>>, <<127008, 450>>, <<129024, 405>>, <<130752, 405>>,
    <<134136, 400>>, <<134784, 405>>, <<136512, 405>>, <<142272, 405>>,
    <<148716, 400>>, <<149040, 396>>,
    <<67392, 45>>, <<134784, 45>>, <<171072, 75>>, <<33696, 90>>, <<67392, 90>>,
    <<127008, 90>>, <<134784, 90>>, <<163296, 90>>, <<131760, 108>> }

\* Math.floor(random() * m) for the draw with state s.
floorRandom(s, m) ==
  IF <<s, m>> \in floorRoundedDown THEN (s * m) \div 233280 - 1
  ELSE (s * m) \div 233280

\* element.size || 10
sizeOrDefault(element) ==
  IF "size" \in DOMAIN element /\ element.size # 0 THEN element.size ELSE 10

tooCloseNoBuffer(x, y, size, element) ==
  LET elementSize == sizeOrDefault(element)
      dx == (2 * x + size) - (2 * element.x + elementSize)
      dy == (2 * y + size) - (2 * element.y + elementSize)
      reach == size + elementSize
  IN  dx * dx + dy * dy < reach * reach

\* distance < size/2 + elementSize/2 + buffer, with every length doubled and
\* both sides squared.
tooClose(x, y, size, element) ==
  LET elementSize == sizeOrDefault(element)
      dx == (2 * x + size) - (2 * element.x + elementSize)
      dy == (2 * y + size) - (2 * element.y + elementSize)
      reach == size + elementSize + 2 * 10
  IN  dx * dx + dy * dy < reach * reach

checkCollisionWithExistingElements(x, y, size, existingElements) ==
  \E i \in 1..Len(existingElements) : tooClose(x, y, size, existingElements[i])

\* One pass of the while loop that looks for a valid position: attempts++, two
\* draws, the overlap test.
tryPositionWholeChunk(st, originX, originY, cSize, size, placed) ==
  LET s1 == createSeededRandom(st.s)
      s2 == createSeededRandom(s1)
      x == originX + floorRandom(s1, cSize)
      y == originY + floorRandom(s2, cSize)
  IN  [attempts |-> st.attempts + 1, s |-> s2, x |-> x, y |-> y,
       validPosition |-> ~checkCollisionWithExistingElements(x, y, size, placed)]

tryPosition(st, originX, originY, cSize, size, placed) ==
  LET s1 == createSeededRandom(st.s)
      s2 == createSeededRandom(s1)
      x == originX + floorRandom(s1, cSize - size)
      y == originY + floorRandom(s2, cSize - size)
  IN  [attempts |-> st.attempts + 1, s |-> s2, x |-> x, y |-> y,
       validPosition |-> ~checkCollisionWithExistingElements(x, y, size, placed)]

\* while (!validPosition): the loop without the limit of 50 attempts, stopped
\* at 60
RECURSIVE findPositionUnbounded(_, _, _, _, _, _)
findPositionUnbounded(st, originX, originY, cSize, size, placed) ==
  IF st.validPosition \/ st.attempts >= 60 THEN st
  ELSE findPositionUnbounded(tryPosition(st, originX, originY, cSize, size, placed),
                             originX, originY, cSize, size, placed)

\* while (!validPosition && attempts < 50)
RECURSIVE findPosition(_, _, _, _, _, _)
findPosition(st, originX, originY, cSize, size, placed) ==
  IF st.validPosition \/ st.attempts >= 50 THEN st
  ELSE findPosition(tryPosition(st, originX, originY, cSize, size, placed),
                    originX, originY, cSize, size, placed)

\* The size and the position search of one pass of the for loop.
positionFor(st, originX, originY, cSize, sizeBase, sizeSpan, existing) ==
  LET s1 == createSeededRandom(st.s)
      size == sizeBase + floorRandom(s1, sizeSpan)
      s2 == createSeededRandom(s1)
  IN  [size |-> size, from |-> s2,
       found |-> findPosition([attempts |-> 0, s |-> s2, x |-> 0, y |-> 0,
                               validPosition |-> FALSE],
                              originX, originY, cSize, size, existing \o st.placed)]

\* One pass of the for loop shared by generateTrees (sizeBase 80, sizeSpan 40)
\* and generateBushes (sizeBase 40, sizeSpan 20).  st.s is the generator state,
\* st.placed the elements pushed so far, without their id; the colour is kept as
\* the three draws that make it.
placeOne(st, originX, originY, cSize, sizeBase, sizeSpan, existing) ==
  LET s1 == createSeededRandom(st.s)
      size == sizeBase + floorRandom(s1, sizeSpan)
      s2 == createSeededRandom(s1)
      variant == floorRandom(s2, 3)
      p == positionFor(st, originX, originY, cSize, sizeBase, sizeSpan, existing).found
      c1 == createSeededRandom(p.s)
      c2 == createSeededRandom(c1)
      c3 == createSeededRandom(c2)
  IN  IF p.validPosition
      THEN [i |-> st.i + 1, s |-> c3,
            placed |-> Append(st.placed, [x |-> p.x, y |-> p.y, size |-> size,
                                          color |-> <<c1, c2, c3>>, variant |-> variant])]
      ELSE [i |-> st.i + 1, s |-> p.s, placed |-> st.placed]

\* for (let i = 0; i < count; i++)
RECURSIVE placeSized(_, _, _, _, _, _, _, _)
placeSized(st, count, originX, originY, cSize, sizeBase, sizeSpan, existing) ==
  IF st.i >= count THEN st.placed
  ELSE placeSized(placeOne(st, originX, originY, cSize, sizeBase, sizeSpan, existing),
                  count, originX, originY, cSize, sizeBase, sizeSpan, existing)

\* id: nextId++ for each pushed element, in push order.
withIds(placed, firstId) ==
  [i \in 1..Len(placed) |-> [id |-> firstId + i - 1] @@ placed[i]]

generateTrees(originX, originY, cSize, count, seed, firstId) ==
  withIds(placeSized([i |-> 0, s |-> seed, placed |-> <<>>], count,
                     originX, originY, cSize, 80, 40, <<>>),
          firstId)

generateBushes(originX, originY, cSize, count, seed, existingElements, firstId) ==
  withIds(placeSized([i |-> 0, s |-> seed, placed |-> <<>>], count,
                     originX, originY, cSize, 40, 20, existingElements),
          firstId)

\* The test left out: no point is on an element.
onElementNever(x, y, element) == FALSE

\* distance < elementSize/2 from the flower's point to the element's centre.
onElement(x, y, element) ==
  LET elementSize == sizeOrDefault(element)
      dx == 2 * x - (2 * element.x + elementSize)
      dy == 2 * y - (2 * element.y + elementSize)
  IN  dx * dx + dy * dy < elementSize * elementSize

\* One pass of the for loop of generateFlowers: three draws, one point.
placeFlower(st, originX, originY, cSize, existingElements) ==
  LET s1 == createSeededRandom(st.s)
      s2 == createSeededRandom(s1)
      s3 == createSeededRandom(s2)
      x == originX + floorRandom(s1, cSize)
      y == originY + floorRandom(s2, cSize)
      color == floorRandom(s3, 9)
      validPosition ==
        \A k \in 1..Len(existingElements) : ~onElement(x, y, existingElements[k])
  IN  [i |-> st.i + 1, s |-> s3,
       placed |-> IF validPosition
                  THEN Append(st.placed, [x |-> x, y |-> y, color |-> color])
                  ELSE st.placed]

RECURSIVE placeFlowers(_, _, _, _, _, _)
placeFlowers(st, count, originX, originY, cSize, existingElements) ==
  IF st.i >= count THEN st.placed
  ELSE placeFlowers(placeFlower(st, originX, originY, cSize, existingElements),
                    count, originX, originY, cSize, existingElements)

generateFlowers(originX, originY, cSize, count, seed, existingElements, firstId) ==
  withIds(placeFlowers([i |-> 0, s |-> seed, placed |-> <<>>], count,
                       originX, originY, cSize, existingElements),
          firstId)

(***************************************************************************)
(* useWorldState.ts: generateChunk                                         *)
(***************************************************************************)
\* 5 + Math.floor((Math.sin(chunkSeed) + 1) * 5), chunkSeed = chunkX * 10000 + chunkY,
\* tabulated for chunkX, chunkY in 0..9 (row chunkX, column chunkY).
treeCountTable ==
  << <<10, 14, 14, 10, 6, 5, 8, 13, 14, 12>>,
     <<8, 5, 6, 10, 14, 14, 9, 5, 5, 9>>,
     <<12, 14, 12, 7, 5, 6, 11, 14, 13, 9>>,
     <<5, 5, 8, 13, 14, 11, 6, 5, 7, 12>>,
     <<14, 13, 9, 5, 5, 9, 14, 14, 10, 6>>,
     <<5, 7, 11, 14, 13, 8, 5, 6, 10, 14>>,
     <<14, 11, 6, 5, 7, 12, 14, 12, 7, 5>>,
     <<5, 10, 14, 14, 10, 6, 5, 8, 13, 14>>,
     <<13, 8, 5, 6, 11, 14, 14, 9, 5, 5>>,
     <<8, 13, 14, 12, 7, 5, 7, 11, 14, 13>> >>

\* 8 + Math.floor((Math.cos(chunkSeed) + 1) * 7)
bushCountTable ==
  << <<22, 18, 12, 8, 10, 16, 21, 20, 13, 8>>,
     <<8, 13, 19, 21, 17, 11, 8, 11, 18, 21>>,
     <<20, 14, 8, 8, 14, 20, 21, 16, 10, 8>>,
     <<10, 17, 21, 19, 13, 8, 9, 15, 21, 21>>,
     <<17, 10, 8, 11, 18, 21, 19, 12, 8, 10>>,
     <<14, 20, 21, 16, 9, 8, 12, 19, 21, 17>>,
     <<12, 8, 9, 16, 21, 20, 14, 9, 8, 14>>,
     <<18, 21, 18, 11, 8, 10, 17, 21, 20, 13>>,
     <<9, 8, 13, 19, 21, 17, 10, 8, 11, 18>>,
     <<21, 20, 14, 8, 8, 14, 20, 21, 16, 9>> >>

\* 15 + Math.floor((Math.sin(chunkSeed * 0.1) + 1) * 10)
flowerCountTable ==
  << <<25, 25, 26, 27, 28, 29, 30, 31, 32, 32>>,
     <<33, 33, 34, 34, 34, 34, 34, 34, 34, 34>>,
     <<34, 33, 33, 32, 32, 31, 30, 29, 28, 27>>,
     <<27, 26, 25, 24, 23, 22, 21, 20, 19, 18>>,
     <<18, 17, 16, 16, 15, 15, 15, 15, 15, 15>>,
     <<15, 15, 15, 16, 16, 17, 17, 18, 19, 20>>,
     <<20, 21, 22, 23, 24, 25, 26, 27, 28, 29>>,
     <<30, 30, 31, 32, 33, 33, 34, 34, 34, 34>>,
     <<34, 34, 34, 34, 34, 34, 33, 33, 32, 31>>,
     <<31, 30, 29, 28, 27, 26, 25, 24, 23, 22>> >>

\* The element lists generateChunk(chunkX, chunkY) builds, before the ids are
\* put in: the trees, the bushes placed clear of the trees, the flowers placed
\* off the trees and the bushes.
placeChunk(chunkX, chunkY) ==
  LET chunkOriginX == chunkX * chunkSize
      chunkOriginY == chunkY * chunkSize
      chunkSeed == chunkX * 10000 + chunkY
      trees == placeSized([i |-> 0, s |-> chunkSeed, placed |-> <<>>],
                          treeCountTable[chunkX + 1][chunkY + 1],
                          chunkOriginX, chunkOriginY, chunkSize, 80, 40, <<>>)
      bushes == placeSized([i |-> 0, s |-> chunkSeed + 1, placed |-> <<>>],
                           bushCountTable[chunkX + 1][chunkY + 1],
                           chunkOriginX, chunkOriginY, chunkSize, 40, 20, trees)
      flowers == placeFlowers([i |-> 0, s |-> chunkSeed + 2, placed |-> <<>>],
                              flowerCountTable[chunkX + 1][chunkY + 1],
                              chunkOriginX, chunkOriginY, chunkSize, trees \o bushes)
  IN  [trees |-> trees, bushes |-> bushes, flowers |-> flowers]

\* placeChunk over the chunks of the world.  The table is evaluated once (@@
\* makes it an explicit function), the placement being the same at every call.
ChunkCoords == 0..((worldWidth - 1) \div chunkSize)
placedChunks == [c \in ChunkCoords \X ChunkCoords |-> placeChunk(c[1], c[2])] @@ <<>>

generateChunkSeededByCounter(chunkX, chunkY, ids) ==
  LET placed == placedChunks[<<chunkX, (chunkY + ids[1]) % 10>>]
  IN  [x |-> chunkX, y |-> chunkY,
       trees |-> withIds(placed.trees, ids[1]),
       bushes |-> withIds(placed.bushes, ids[2]),
       flowers |-> withIds(placed.flowers, ids[3]),
       isLoaded |-> TRUE]

\* The chunk generateChunk(chunkX, chunkY) returns when the id counters stand
\* at ids = <<nextTreeId, nextBushId, nextFlowerId>>.
generateChunk(chunkX, chunkY, ids) ==
  LET placed == placedChunks[<<chunkX, chunkY>>]
  IN  [x |-> chunkX, y |-> chunkY,
       trees |-> withIds(placed.trees, ids[1]),
       bushes |-> withIds(placed.bushes, ids[2]),
       flowers |-> withIds(placed.flowers, ids[3]),
       isLoaded |-> TRUE]

\* The id counters after a chunk has been generated.
idsAfter(ids, chunk) ==
  <<ids[1] + Len(chunk.trees), ids[2] + Len(chunk.bushes), ids[3] + Len(chunk.flowers)>>

(***************************************************************************)
(* useWorldState.ts: the chunk store                                       *)
(*                                                                         *)
(* A world is the record of what the hook holds:                           *)
(*   loadedChunks, worldElements          the rendered state               *)
(*   loadedChunksRef, worldElementsRef    the refs                         *)
(*   chunkUpdates, elementUpdates         state updates waiting for the    *)
(*                                        next render                      *)
(*   ids                                  the three id counters            *)
(*   generated                            keys generateChunk was called    *)
(*                                        with (history)                   *)
(*   scheduled                            keys of the chunks handed to     *)
(*                                        setLoadedChunks as new (history) *)
(***************************************************************************)
noElements == [trees |-> <<>>, bushes |-> <<>>, flowers |-> <<>>]

\* [...prev.trees, ...newElements.trees] and so on
appendElements(prev, newElements) ==
  [trees |-> prev.trees \o newElements.trees,
   bushes |-> prev.bushes \o newElements.bushes,
   flowers |-> prev.flowers \o newElements.flowers]

\* `${chunkX},${chunkY}`: one string per pair of integers
getChunkKey(chunkX, chunkY) == <<chunkX, chunkY>>

\* Math.floor(position / config.chunkSize)
getChunkCoordinates(position) ==
  [x |-> position.x \div (chunkSize * PosScale),
   y |-> position.y \div (chunkSize * PosScale)]

outOfWorldOrFirst(x, y) ==
  x <= 0 \/ y <= 0 \/ x * chunkSize >= worldWidth \/ y * chunkSize >= worldHeight

\* The test that skips a cell of the loop
outOfWorld(x, y) ==
  x < 0 \/ y < 0 \/ x * chunkSize >= worldWidth \/ y * chunkSize >= worldHeight

\* The cells the two nested loops of loadChunks visit, in order: x outside, y inside.
loopCells(currentChunk) ==
  LET side == 2 * renderDistance + 1
  IN  [n \in 1..(side * side) |->
         <<currentChunk.x - renderDistance + ((n - 1) \div side),
           currentChunk.y - renderDistance + ((n - 1) % side)>>]

\* The body of the inner loop with chunksChanged set for every cell visited.
loadCellAlwaysChanged(st, cell) ==
  LET x == cell[1]
      y == cell[2]
      chunkKey == getChunkKey(x, y)
  IN  IF outOfWorld(x, y) \/ chunkKey \in DOMAIN st.newChunks
      THEN [st EXCEPT !.n = @ + 1, !.chunksChanged = TRUE]
      ELSE CHOOSE next \in
             { [n |-> st.n + 1,
                newChunks |-> (chunkKey :> chunk) @@ st.newChunks,
                newElements |-> appendElements(st.newElements, chunk),
                ids |-> idsAfter(st.ids, chunk),
                chunksChanged |-> TRUE,
                generated |-> Append(st.generated, chunkKey)] :
               chunk \in {generateChunk(x, y, st.ids)} } : TRUE

\* The body of the inner loop for one cell.
loadCell(st, cell) ==
  LET x == cell[1]
      y == cell[2]
      chunkKey == getChunkKey(x, y)
  IN  IF outOfWorld(x, y) \/ chunkKey \in DOMAIN st.newChunks
      THEN [st EXCEPT !.n = @ + 1]
      ELSE CHOOSE next \in
             { [n |-> st.n + 1,
                newChunks |-> (chunkKey :> chunk) @@ st.newChunks,
                newElements |-> appendElements(st.newElements, chunk),
                ids |-> idsAfter(st.ids, chunk),
                chunksChanged |-> TRUE,
                generated |-> Append(st.generated, chunkKey)] :
               chunk \in {generateChunk(x, y, st.ids)} } : TRUE

RECURSIVE loadLoop(_, _)
loadLoop(st, cells) ==
  IF st.n > Len(cells) THEN st
  ELSE CHOOSE done \in {loadLoop(next, cells) : next \in {loadCell(st, cells[st.n])}} : TRUE

loadChunks(w, position) ==
  CHOOSE after \in
    { IF done.chunksChanged
      THEN [w EXCEPT !.chunkUpdates = Append(@, done.newChunks),
                     !.elementUpdates = Append(@, done.newElements),
                     !.ids = done.ids,
                     !.generated = @ \o done.generated,
                     !.scheduled = @ \cup (DOMAIN done.newChunks \ DOMAIN w.loadedChunksRef)]
      ELSE w :
      done \in { loadLoop([n |-> 1, newChunks |-> w.loadedChunksRef,
                           newElements |-> noElements, ids |-> w.ids,
                           chunksChanged |-> FALSE, generated |-> <<>>],
                          loopCells(getChunkCoordinates(position))) } } : TRUE

mergeChunkOverwriting(st, chunk) ==
  LET chunkKey == getChunkKey(chunk.x, chunk.y)
  IN  [n |-> st.n + 1,
       newChunks |-> (chunkKey :> chunk) @@ st.newChunks,
       newElements |-> appendElements(st.newElements, chunk)]

\* The body of the loop of updateWithServerChunks for one chunk.
mergeChunk(st, chunk) ==
  LET chunkKey == getChunkKey(chunk.x, chunk.y)
  IN  IF chunkKey \in DOMAIN st.newChunks
      THEN [st EXCEPT !.n = @ + 1]
      ELSE [n |-> st.n + 1,
            newChunks |-> (chunkKey :> chunk) @@ st.newChunks,
            newElements |-> appendElements(st.newElements, chunk)]

RECURSIVE mergeLoop(_, _)
mergeLoop(st, serverChunks) ==
  IF st.n > Len(serverChunks) THEN st
  ELSE CHOOSE done \in {mergeLoop(next, serverChunks) :
                          next \in {mergeChunk(st, serverChunks[st.n])}} : TRUE

updateWithServerChunks(w, serverChunks) ==
  IF Len(serverChunks) = 0 THEN w
  ELSE
    CHOOSE after \in
      { IF \/ Len(done.newElements.trees) > 0
           \/ Len(done.newElements.bushes) > 0
           \/ Len(done.newElements.flowers) > 0
        THEN [w EXCEPT !.chunkUpdates = Append(@, done.newChunks),
                       !.elementUpdates = Append(@, done.newElements),
                       !.worldElementsRef = appendElements(@, done.newElements),
                       !.scheduled = @ \cup (DOMAIN done.newChunks \ DOMAIN w.loadedChunksRef)]
        ELSE w :
        done \in { mergeLoop([n |-> 1, newChunks |-> w.loadedChunksRef,
                              newElements |-> noElements], serverChunks) } } : TRUE

\* setWorldElements(prev => ...) applied in order
RECURSIVE applyElementUpdates(_, _)
applyElementUpdates(prev, updates) ==
  IF updates = <<>> THEN prev
  ELSE CHOOSE done \in {applyElementUpdates(next, Tail(updates)) :
                          next \in {appendElements(prev, Head(updates))}} : TRUE

\* A render: the queued updates become the state; then the effects whose
\* dependency changed copy the state into the refs.
render(w) ==
  LET chunks == IF w.chunkUpdates = <<>> THEN w.loadedChunks
                ELSE w.chunkUpdates[Len(w.chunkUpdates)]
      elements == applyElementUpdates(w.worldElements, w.elementUpdates)
  IN  [w EXCEPT !.loadedChunks = chunks,
                !.worldElements = elements,
                !.loadedChunksRef = IF w.chunkUpdates = <<>> THEN @ ELSE chunks,
                !.worldElementsRef = IF w.elementUpdates = <<>> THEN @ ELSE elements,
                !.chunkUpdates = <<>>,
                !.elementUpdates = <<>>]

(***************************************************************************)
(* useGameEngine.ts                                                        *)
(*                                                                         *)
(* The refs playerPositionRef, directionRef, isMovingRef, keysPressedRef   *)
(* and collisionObjectsRef are assigned from the state in every render, so *)
(* they are the state variables themselves; updatePlayerMovement is made   *)
(* anew when animationFrame changes, so the animationFrame it reads is the *)
(* state as well.  Times are in 1/100 ms where 16.67 ms appears.           *)
(***************************************************************************)
GAME_CONFIG ==
  [viewportWidth |-> viewportWidth, viewportHeight |-> viewportHeight,
   characterSize |-> characterSize, movementSpeedHalves |-> movementSpeedHalves,
   worldWidth |-> worldWidth, worldHeight |-> worldHeight,
   chunkSize |-> chunkSize, renderDistance |-> renderDistance]

Min(a, b) == IF a < b THEN a ELSE b
Max(a, b) == IF a > b THEN a ELSE b
Abs(a) == IF a < 0 THEN -a ELSE a

\* x * num / den for den > 0 and 0 <= num <= den, rounded toward zero, without
\* leaving 32 bits.
scale(x, num, den) ==
  LET m == Abs(x)
      q == (m \div den) * num + ((m % den) * num) \div den
  IN  IF x < 0 THEN -q ELSE q

MovementKeys == {"ArrowUp", "ArrowDown", "ArrowLeft", "ArrowRight", "w", "a", "s", "d"}

\* checkCollision with touching rectangles counted as colliding.
checkCollisionTouching(config, objects, x, y) ==
  LET playerHitbox ==
        [left |-> x + 16 * PosScale,
         right |-> x + (config.characterSize - 16) * PosScale,
         top |-> y + (config.characterSize * PosScale) \div 2,
         bottom |-> y + (config.characterSize - 8) * PosScale]
  IN  \/ \E i \in 1..Len(objects) :
           /\ playerHitbox.right >= objects[i].left * PosScale
           /\ playerHitbox.left <= objects[i].right * PosScale
           /\ playerHitbox.bottom >= objects[i].top * PosScale
           /\ playerHitbox.top <= objects[i].bottom * PosScale
      \/ playerHitbox.left < 0
      \/ playerHitbox.right > config.worldWidth * PosScale
      \/ playerHitbox.top < 0
      \/ playerHitbox.bottom > config.worldHeight * PosScale

\* checkCollision(x, y) on the obstacle list objects; x and y in 1/PosScale,
\* the obstacles in world units.
checkCollision(config, objects, x, y) ==
  LET playerHitbox ==
        [left |-> x + 16 * PosScale,
         right |-> x + (config.characterSize - 16) * PosScale,
         top |-> y + (config.characterSize * PosScale) \div 2,
         bottom |-> y + (config.characterSize - 8) * PosScale]
  IN  \/ \E i \in 1..Len(objects) :
           /\ playerHitbox.right > objects[i].left * PosScale
           /\ playerHitbox.left < objects[i].right * PosScale
           /\ playerHitbox.bottom > objects[i].top * PosScale
           /\ playerHitbox.top < objects[i].bottom * PosScale
      \/ playerHitbox.left < 0
      \/ playerHitbox.right > config.worldWidth * PosScale
      \/ playerHitbox.top < 0
      \/ playerHitbox.bottom > config.worldHeight * PosScale

\* config.movementSpeed a frame, whatever the interval
frameSpeedPerFrame(config, clampedDeltaTime) ==
  config.movementSpeedHalves * (PosScale \div 2)

\* (config.movementSpeed * clampedDeltaTime) / 16.67, in 1/PosScale
frameSpeedOf(config, clampedDeltaTime) ==
  (config.movementSpeedHalves * clampedDeltaTime * (PosScale \div 2)) \div 1667

\* The four input blocks of updatePlayerMovement, one after the other.  m is
\* [newX, newY, newDirection, moving].
moveUp(config, objects, keys, frameSpeed, m) ==
  IF "ArrowUp" \in keys \/ "w" \in keys
  THEN LET testY == Max(0, m.newY - frameSpeed)
       IN  [m EXCEPT !.newY = IF ~checkCollision(config, objects, m.newX, testY)
                              THEN testY ELSE @,
                     !.newDirection = "up", !.moving = TRUE]
  ELSE m

moveDownUnclamped(config, objects, keys, frameSpeed, m) ==
  IF "ArrowDown" \in keys \/ "s" \in keys
  THEN LET testY == m.newY + frameSpeed
       IN  [m EXCEPT !.newY = IF ~checkCollision(config, objects, m.newX, testY)
                              THEN testY ELSE @,
                     !.newDirection = "down", !.moving = TRUE]
  ELSE m

moveDown(config, objects, keys, frameSpeed, m) ==
  IF "ArrowDown" \in keys \/ "s" \in keys
  THEN LET testY == Min((config.worldHeight - config.characterSize) * PosScale,
                        m.newY + frameSpeed)
       IN  [m EXCEPT !.newY = IF ~checkCollision(config, objects, m.newX, testY)
                              THEN testY ELSE @,
                     !.newDirection = "down", !.moving = TRUE]
  ELSE m

\* The input block of the left keys without its collision test.
moveLeftUnchecked(config, objects, keys, frameSpeed, m) ==
  IF "ArrowLeft" \in keys \/ "a" \in keys
  THEN [m EXCEPT !.newX = Max(0, m.newX - frameSpeed),
                 !.newDirection = "left", !.moving = TRUE]
  ELSE m

moveLeft(config, objects, keys, frameSpeed, m) ==
  IF "ArrowLeft" \in keys \/ "a" \in keys
  THEN LET testX == Max(0, m.newX - frameSpeed)
       IN  [m EXCEPT !.newX = IF ~checkCollision(config, objects, testX, m.newY)
                              THEN testX ELSE @,
                     !.newDirection = "left", !.moving = TRUE]
  ELSE m

moveRight(config, objects, keys, frameSpeed, m) ==
  IF "ArrowRight" \in keys \/ "d" \in keys
  THEN LET testX == Min((config.worldWidth - config.characterSize) * PosScale,
                        m.newX + frameSpeed)
       IN  [m EXCEPT !.newX = IF ~checkCollision(config, objects, testX, m.newY)
                              THEN testX ELSE @,
                     !.newDirection = "right", !.moving = TRUE]
  ELSE m

\* The input blocks with one collision test for both axes: a collision of the
\* position moved on both axes cancels both moves.
handleMovementJoint(config, objects, keys, frameSpeed, targetPos, currentDirection) ==
  LET m == moveRight(config, <<>>, keys, frameSpeed,
             moveLeft(config, <<>>, keys, frameSpeed,
               moveDown(config, <<>>, keys, frameSpeed,
                 moveUp(config, <<>>, keys, frameSpeed,
                        [newX |-> targetPos.x, newY |-> targetPos.y,
                         newDirection |-> currentDirection, moving |-> FALSE]))))
  IN  IF checkCollision(config, objects, m.newX, m.newY)
      THEN [m EXCEPT !.newX = targetPos.x, !.newY = targetPos.y]
      ELSE m

handleMovementInput(config, objects, keys, frameSpeed, targetPos, currentDirection) ==
  moveRight(config, objects, keys, frameSpeed,
    moveLeft(config, objects, keys, frameSpeed,
      moveDown(config, objects, keys, frameSpeed,
        moveUp(config, objects, keys, frameSpeed,
               [newX |-> targetPos.x, newY |-> targetPos.y,
                newDirection |-> currentDirection, moving |-> FALSE]))))

\* distanceSquared > 0: the threshold of 0.1 left out
tooFarExact(currentPos, targetPos) ==
  currentPos # targetPos

\* distanceSquared > 0.1; beyond one world unit on an axis the squares are not taken
tooFar(currentPos, targetPos) ==
  LET dx == currentPos.x - targetPos.x
      dy == currentPos.y - targetPos.y
  IN  \/ Abs(dx) > PosScale
      \/ Abs(dy) > PosScale
      \/ 10 * (dx * dx + dy * dy) > PosScale * PosScale

\* The interpolation with a factor of 1.5 * clampedDeltaTime / 16.67, not capped.
interpolateTenfold(currentPos, targetPos, clampedDeltaTime) ==
  [x |-> currentPos.x + ((targetPos.x - currentPos.x) \div 3334) * (3 * clampedDeltaTime),
   y |-> currentPos.y + ((targetPos.y - currentPos.y) \div 3334) * (3 * clampedDeltaTime)]

\* currentPos + (targetPos - currentPos) * Math.min(1.0, 0.15 * clampedDeltaTime / 16.67):
\* the factor is 3 * clampedDeltaTime / 33340.
interpolate(currentPos, targetPos, clampedDeltaTime) ==
  LET num == Min(33340, 3 * clampedDeltaTime)
  IN  [x |-> currentPos.x + scale(targetPos.x - currentPos.x, num, 33340),
       y |-> currentPos.y + scale(targetPos.y - currentPos.y, num, 33340)]

\* setAnimationFrame calls applied in order
RECURSIVE applyFrameUpdates(_, _)
applyFrameUpdates(prev, updates) ==
  IF updates = <<>> THEN prev
  ELSE applyFrameUpdates(IF Head(updates) = "next" THEN (prev + 1) % 6 ELSE 0,
                         Tail(updates))

(***************************************************************************)
(* Initial values                                                          *)
(***************************************************************************)
NoChunk == [x |-> -1, y |-> -1, trees |-> <<>>, bushes |-> <<>>, flowers |-> <<>>,
            isLoaded |-> FALSE]
NoLoad == [position |-> [x |-> -1, y |-> -1], before |-> {}, inserted |-> {}]
NoMerge == [batch |-> <<>>, calls |-> 0, before |-> {}]

InitIds ==
  /\ nextTreeId = 1000000
  /\ nextBushId = 2000000
  /\ nextFlowerId = 3000000

InitGenVars ==
  /\ genChunk = NoChunk
  /\ genCalls = 0
  /\ genLog = <<>>

\* useState(new Map()), useState({trees: [], ...}), useRef(state)
InitWorldVars ==
  /\ loadedChunks = <<>>
  /\ worldElements = noElements
  /\ loadedChunksRef = <<>>
  /\ worldElementsRef = noElements
  /\ chunkUpdates = <<>>
  /\ elementUpdates = <<>>
  /\ mounted = FALSE
  /\ loggedIn = FALSE
  /\ steps = 0
  /\ generateLog = <<>>
  /\ lastLoad = NoLoad
  /\ lastMerge = NoMerge
  /\ scheduledKeys = {}

\* lastTick, the record of the last updatePlayerMovement call: the keys held,
\* the gap to the call before (0 at the first), the clamped interval, the
\* target and the direction state it found, whether it called
\* setPlayerPosition; and over all calls so far: the keys held in some call
\* (keysEver), the calls
\* in a row up to the last without a movement key, each with the gap of the
\* one before and with the updates of the one before rendered (idleTicks), the
\* number of changes of the held keys from call to call (keySets), the sum of
\* the clamped intervals; the time the movement has lasted without a stop
\* since the last advance of the animation frame (runTime), and whether the
\* call advanced the animation frame.
NoTick ==
  [keys |-> {}, gap |-> 0, clampedDeltaTime |-> 0,
   targetBefore |-> [x |-> -1, y |-> -1], directionBefore |-> "down",
   queued |-> FALSE, keysEver |-> {}, keySets |-> 0, idleTicks |-> 0, clampedSum |-> 0,
   runTime |-> 0, advanced |-> FALSE]

\* useGameEngine(config) with an empty obstacle list: the player in the middle
\* of the world, facing down, at rest.
InitEngineVars(config, objects) ==
  /\ engineConfig = config
  /\ playerPosition = [x |-> (config.worldWidth * PosScale) \div 2,
                       y |-> (config.worldHeight * PosScale) \div 2]
  /\ positionUpdates = <<>>
  /\ direction = "down"
  /\ directionUpdates = <<>>
  /\ isMoving = FALSE
  /\ movingUpdates = <<>>
  /\ animationFrame = 0
  /\ frameUpdates = <<>>
  /\ keysPressed = {}
  /\ collisionObjects = objects
  /\ animationTimer = 0
  /\ lastFrameTime = 0
  /\ targetPosition = playerPosition
  /\ ticks = 0
  /\ keyEvents = 0
  /\ lastTick = NoTick

\* const random = createSeededRandom(seed)
\* getVisibleElements(cameraPosition, viewportWidth, viewportHeight) on the
\* chunks of loadedChunksRef.current.  The result holds, for each species, the
\* set of the elements of its array; the order of the arrays, that of the
\* map's entries, is left out.
noneVisible == [trees |-> {}, bushes |-> {}, flowers |-> {}]

isElementVisible(element, visibleArea) ==
  LET size == IF "size" \in DOMAIN element THEN element.size ELSE 0
  IN  /\ element.x < visibleArea.right
      /\ element.x + size > visibleArea.left
      /\ element.y < visibleArea.bottom
      /\ element.y + size > visibleArea.top

getVisibleElements(chunks, cameraPosition, width, height) ==
  LET visibleArea == [left |-> cameraPosition.x - 100,
                      right |-> cameraPosition.x + width + 100,
                      top |-> cameraPosition.y - 100,
                      bottom |-> cameraPosition.y + height + 100]
  IN  [trees |-> UNION { { chunks[k].trees[i] : i \in { j \in 1..Len(chunks[k].trees) :
                             isElementVisible(chunks[k].trees[j], visibleArea) } } :
                         k \in DOMAIN chunks },
       bushes |-> {},
       flowers |-> {}]

\* Date.now() when the page is loaded, any time more than
\* positionUpdateInterval after 1970.
PoseEpoch == 1000

InitPoseVars ==
  /\ poseClock = PoseEpoch
  /\ lastPositionUpdate = 0
  /\ isConnected = FALSE
  /\ poseEffects = <<>>
  /\ poseDue = FALSE
  /\ poseChanges = 0

\* No checkCollision call made yet.
NoHitInput == [x |-> 0, y |-> 0, called |-> FALSE]

\* MultiplayerService after construction (lines 17-28); mockMode is the
\* initialiser of line 28, or the flag switched off.
InitServiceVars(mockMode) ==
  /\ service = [mockMode |-> mockMode, isConnected |-> FALSE, reconnectAttempts |-> 0,
                reconnectTimeout |-> 0, socket |-> 0]
  /\ webSockets = <<>>
  /\ timeouts = <<>>
  /\ disconnected = FALSE

\* MultiplayerClient after construction (lines 45-61) and RemotePlayers
\* after its first render (RemovePlayers.tsx line 11); mockMode is the
\* initialiser of line 53, or the flag switched off.
InitClientVars(mockMode) ==
  /\ client = [mockMode |-> mockMode, playerId |-> "", username |-> "", socket |-> 0]
  /\ ioSockets = <<>>
  /\ players = {}
  /\ handlerCalls = [join |-> {}, move |-> {}]
  /\ answered = 0

InitHitVars ==
  /\ hitInput = NoHitInput
  /\ hitResult = FALSE

InitMockVars ==
  /\ mockChunks = <<>>
  /\ mockCalls = 0

\* A generateTrees / generateBushes call about to enter its for loop.
NoPlaceArgs ==
  [cSize |-> 0, count |-> 0, seed |-> 0, sizeBase |-> 0, sizeSpan |-> 0, existing |-> <<>>]

InitPlaceVars(args) ==
  /\ placeArgs = args
  /\ placeState = [i |-> 0, s |-> args.seed, placed |-> <<>>]
  /\ placeTries = <<>>

\* No getVisibleElements call made yet.
InitViewVars ==
  /\ visibleCamera = [x |-> 0, y |-> 0]
  /\ visibleElements = noneVisible

InitRngVars(seed) ==
  /\ rngSeed = seed
  /\ rngState = seed
  /\ rngDraws = 0

Init ==
  /\ InitIds /\ InitGenVars /\ InitWorldVars /\ InitEngineVars(GAME_CONFIG, <<>>)
  /\ InitRngVars(0) /\ InitViewVars /\ InitMockVars /\ InitHitVars /\ InitServiceVars(TRUE) /\ InitClientVars(TRUE) /\ InitPoseVars /\ InitPlaceVars(NoPlaceArgs)

(***************************************************************************)
(* SpecGen: the generator on its own                                       *)
(***************************************************************************)
GenerateChunk(cx, cy) ==
  /\ genCalls < MaxGen
  /\ \E chunk \in {generateChunk(cx, cy, <<nextTreeId, nextBushId, nextFlowerId>>)} :
       \E after \in {idsAfter(<<nextTreeId, nextBushId, nextFlowerId>>, chunk)} :
         /\ genChunk' = chunk
         /\ genLog' = Append(genLog, chunk)
         /\ nextTreeId' = after[1]
         /\ nextBushId' = after[2]
         /\ nextFlowerId' = after[3]
  /\ genCalls' = genCalls + 1
  /\ UNCHANGED <<serviceVars, clientVars, rngVars, viewVars, placeVars, mockVars, hitVars, poseVars, worldVars, engineVars>>

NextGen == \E cx \in 0..MaxGenCoord, cy \in 0..MaxGenCoord : GenerateChunk(cx, cy)

SpecGen == Init /\ [][NextGen]_vars

\* generateChunk called once, for any chunk of the world.
NextChunk == \E cx \in ChunkCoords, cy \in ChunkCoords : genCalls = 0 /\ GenerateChunk(cx, cy)

SpecChunk == Init /\ [][NextChunk]_vars

(***************************************************************************)
(* SpecIds: the id counters over a long life of the process.  Besides the  *)
(* logged generateChunk calls there are runs of generateTrees calls that   *)
(* push TreeBatch trees in all; of those only the counter is kept.         *)
(***************************************************************************)
GenerateManyTrees ==
  /\ nextTreeId < 2000000
  /\ nextTreeId' = nextTreeId + TreeBatch
  /\ UNCHANGED <<serviceVars, clientVars, nextBushId, nextFlowerId, genVars, rngVars, viewVars, placeVars, mockVars, hitVars, poseVars, worldVars, engineVars>>

NextIds ==
  \/ \E cx \in 0..MaxGenCoord, cy \in 0..MaxGenCoord : GenerateChunk(cx, cy)
  \/ GenerateManyTrees

SpecIds == Init /\ [][NextIds]_vars

(***************************************************************************)
(* SpecRandom: a generator made by createSeededRandom(seed), drawn from.   *)
(***************************************************************************)
Seeds == (-MaxSeed..MaxSeed) \cup {1073741824 + d : d \in 0..MaxSeed}

InitRandom ==
  /\ InitIds /\ InitGenVars /\ InitWorldVars /\ InitEngineVars(GAME_CONFIG, <<>>)
  /\ \E seed \in Seeds : InitRngVars(seed) /\ InitViewVars /\ InitMockVars /\ InitHitVars /\ InitServiceVars(TRUE) /\ InitClientVars(TRUE) /\ InitPoseVars /\ InitPlaceVars(NoPlaceArgs)

\* random(): the state steps, the value returned is rngState' / 233280.
Draw ==
  /\ rngDraws < MaxDraws
  /\ rngState' = createSeededRandom(rngState)
  /\ rngDraws' = rngDraws + 1
  /\ UNCHANGED <<serviceVars, clientVars, rngSeed, idVars, genVars, viewVars, placeVars, mockVars, hitVars, poseVars, worldVars, engineVars>>

NextRandom == Draw

SpecRandom == InitRandom /\ [][NextRandom]_vars

(***************************************************************************)
(* SpecWorld: useWorldState inside Game.  The player position it is given  *)
(* changes by setPlayerPosition calls of the engine, server chunks arrive  *)
(* through the onChunkUpdate handler, and React renders in between.        *)
(***************************************************************************)
World ==
  [loadedChunks |-> loadedChunks, worldElements |-> worldElements,
   loadedChunksRef |-> loadedChunksRef, worldElementsRef |-> worldElementsRef,
   chunkUpdates |-> chunkUpdates, elementUpdates |-> elementUpdates,
   ids |-> <<nextTreeId, nextBushId, nextFlowerId>>,
   generated |-> <<>>, scheduled |-> {}]

SetWorld(w) ==
  /\ loadedChunks' = w.loadedChunks
  /\ worldElements' = w.worldElements
  /\ loadedChunksRef' = w.loadedChunksRef
  /\ worldElementsRef' = w.worldElementsRef
  /\ chunkUpdates' = w.chunkUpdates
  /\ elementUpdates' = w.elementUpdates
  /\ nextTreeId' = w.ids[1]
  /\ nextBushId' = w.ids[2]
  /\ nextFlowerId' = w.ids[3]
  /\ generateLog' = generateLog \o w.generated
  /\ scheduledKeys' = scheduledKeys \cup w.scheduled

\* What a loadChunks call that took w0 to w1 did: the keys of the map it
\* handed to setLoadedChunks that the store did not hold.
loadRecord(w0, w1, position) ==
  [position |-> position, before |-> DOMAIN w0.loadedChunksRef,
   inserted |-> IF Len(w1.chunkUpdates) > Len(w0.chunkUpdates)
                THEN DOMAIN w1.chunkUpdates[Len(w1.chunkUpdates)] \ DOMAIN w0.loadedChunksRef
                ELSE {}]

\* The effects of the first render: useWorldState's mount effect and Game's
\* position effect both call loadChunks(playerPosition).
Mount ==
  /\ ~mounted
  /\ mounted' = TRUE
  /\ \E w1 \in {loadChunks(World, playerPosition)} :
       \E w2 \in {loadChunks(w1, playerPosition)} :
         /\ SetWorld(w2)
         /\ lastLoad' = loadRecord(w1, w2, playerPosition)
  /\ UNCHANGED <<serviceVars, clientVars, genVars, rngVars, viewVars, placeVars, mockVars, hitVars, poseVars, engineVars, loggedIn, steps, lastMerge>>

\* handleLogin, once connect has resolved: setLoggedIn(true) and the chunk
\* handler is registered.  The login form is on screen only after the first
\* render and connect waits for the server, so the updates of the mount
\* effects are rendered by then.
Login ==
  /\ mounted
  /\ ~loggedIn
  /\ chunkUpdates = <<>> /\ elementUpdates = <<>>
  /\ loggedIn' = TRUE
  /\ UNCHANGED <<serviceVars, clientVars, idVars, genVars, rngVars, viewVars, placeVars, mockVars, hitVars, poseVars, engineVars, loadedChunks, worldElements,
                 loadedChunksRef, worldElementsRef, chunkUpdates, elementUpdates,
                 mounted, steps, generateLog, lastLoad, lastMerge, scheduledKeys>>

\* Positions the engine's game loop (running once logged in) may hand to
\* setPlayerPosition, in world units.
Positions ==
  { <<3000, 2500>>, <<0, 0>>, <<worldWidth - characterSize, worldHeight - characterSize>> }

SetPlayerPosition(p) ==
  /\ loggedIn
  /\ steps < MaxSteps
  /\ steps' = steps + 1
  /\ positionUpdates' = Append(positionUpdates, [x |-> p[1] * PosScale, y |-> p[2] * PosScale])
  /\ UNCHANGED <<serviceVars, clientVars, idVars, genVars, rngVars, viewVars, placeVars, mockVars, hitVars, poseVars, playerPosition, moveVars, loadedChunks, worldElements,
                 loadedChunksRef, worldElementsRef, chunkUpdates, elementUpdates,
                 mounted, loggedIn, generateLog, lastLoad, lastMerge, scheduledKeys>>

\* Server chunks: ids as the server numbers them, 1000000 / 2000000 / 3000000 +
\* (x * 10000 + y) * 100 + i.
serverTree(cx, cy, i, x, y) ==
  [id |-> 1000000 + (cx * 10000 + cy) * 100 + i, x |-> x, y |-> y, size |-> 80,
   color |-> <<0, 0, 0>>, variant |-> 0]
serverBush(cx, cy, i, x, y) ==
  [id |-> 2000000 + (cx * 10000 + cy) * 100 + i, x |-> x, y |-> y, size |-> 40,
   color |-> <<0, 0, 0>>, variant |-> 0]
serverFlower(cx, cy, i, x, y) ==
  [id |-> 3000000 + (cx * 10000 + cy) * 100 + i, x |-> x, y |-> y, color |-> 0]
serverChunk(cx, cy, trees, bushes, flowers) ==
  [x |-> cx, y |-> cy, trees |-> trees, bushes |-> bushes, flowers |-> flowers,
   isLoaded |-> TRUE]

\* The batches the server may deliver: a chunk of the starting area; a chunk
\* away from it, sent twice with different content, with an empty neighbour;
\* a single chunk without elements.
Batches ==
  { << serverChunk(5, 5, <<serverTree(5, 5, 0, 2600, 2600)>>, <<>>,
                   <<serverFlower(5, 5, 0, 2700, 2700)>>) >>,
    << serverChunk(1, 0, <<serverTree(1, 0, 0, 600, 100)>>,
                   <<serverBush(1, 0, 0, 800, 300)>>, <<>>),
       serverChunk(1, 0, <<serverTree(1, 0, 1, 700, 200)>>, <<>>, <<>>),
       serverChunk(0, 1, <<>>, <<>>, <<>>) >>,
    << serverChunk(9, 0, <<>>, <<>>, <<>>) >> }

\* The onChunkUpdate handler of Game: updateWithServerChunks(chunks).
DeliverChunks(batch) ==
  /\ loggedIn
  /\ steps < MaxSteps
  /\ steps' = steps + 1
  /\ \E w1 \in {updateWithServerChunks(World, batch)} : SetWorld(w1)
  /\ lastMerge' = [batch |-> batch, calls |-> lastMerge.calls + 1,
                   before |-> DOMAIN loadedChunks]
  /\ UNCHANGED <<serviceVars, clientVars, genVars, rngVars, viewVars, placeVars, mockVars, hitVars, poseVars, engineVars, mounted, loggedIn, lastLoad>>

\* A render of Game and its effects: the queued updates are applied, the refs
\* follow, and when the position object is new Game's effect calls loadChunks.
Commit ==
  /\ mounted
  /\ chunkUpdates # <<>> \/ elementUpdates # <<>> \/ positionUpdates # <<>>
  /\ \E position \in {IF positionUpdates = <<>> THEN playerPosition
                       ELSE positionUpdates[Len(positionUpdates)]} :
       \E w1 \in {render(World)} :
         \E w2 \in {IF positionUpdates = <<>> THEN w1 ELSE loadChunks(w1, position)} :
           /\ playerPosition' = position
           /\ positionUpdates' = <<>>
           /\ SetWorld(w2)
           /\ lastLoad' = IF positionUpdates = <<>> THEN lastLoad
                          ELSE loadRecord(w1, w2, position)
           /\ lastMerge' = IF positionUpdates = <<>> THEN lastMerge
                           ELSE [lastMerge EXCEPT !.batch = <<>>]
  /\ UNCHANGED <<serviceVars, clientVars, genVars, rngVars, viewVars, placeVars, mockVars, hitVars, poseVars, moveVars, mounted, loggedIn, steps>>

NextWorld ==
  \/ Mount
  \/ Login
  \/ \E p \in Positions : SetPlayerPosition(p)
  \/ \E batch \in Batches : DeliverChunks(batch)
  \/ Commit

SpecWorld == Init /\ [][NextWorld]_vars

\* ---------------------------------------------------------------------------
\* SpecWorld with the getVisibleElements call of Game's render.

\* updateCamera: the camera of a player position, in world units
updateCamera(p) ==
  [x |-> Max(0, Min(p[1] - viewportWidth \div 2, worldWidth - viewportWidth)),
   y |-> Max(0, Min(p[2] - viewportHeight \div 2, worldHeight - viewportHeight))]

\* The cameras of the start position and of the positions of SpecWorld.
Cameras == { updateCamera(p) : p \in Positions \cup {<<worldWidth \div 2, worldHeight \div 2>>} }

GetVisibleElements(camera) ==
  /\ mounted
  /\ visibleCamera' = camera
  /\ visibleElements' = getVisibleElements(loadedChunksRef, camera,
                                           viewportWidth, viewportHeight)
  /\ UNCHANGED <<serviceVars, clientVars, idVars, genVars, rngVars, placeVars, mockVars, hitVars, poseVars, worldVars, engineVars>>

NextVisible ==
  \/ NextWorld
  \/ \E camera \in Cameras : GetVisibleElements(camera)

SpecVisible == Init /\ [][NextVisible]_vars

(***************************************************************************)
(* SpecMove: useGameEngine on its own, in a world of MoveWorld x MoveWorld *)
(* with a fixed obstacle list.                                             *)
(***************************************************************************)
MoveConfig == [GAME_CONFIG EXCEPT !.worldWidth = MoveWorld, !.worldHeight = MoveWorld]

\* Obstacle lists handed to updateCollisions before the first tick, in world units.
ObstacleLists ==
  { <<>>,
    << [left |-> 90, right |-> 120, top |-> 60, bottom |-> 95],
       [left |-> 0, right |-> 30, top |-> 0, bottom |-> 20],
       [left |-> 40, right |-> 75, top |-> 110, bottom |-> 135] >> }

InitMove ==
  /\ InitIds /\ InitGenVars /\ InitWorldVars /\ InitRngVars(0) /\ InitViewVars /\ InitMockVars /\ InitHitVars /\ InitServiceVars(TRUE) /\ InitClientVars(TRUE) /\ InitPoseVars /\ InitPlaceVars(NoPlaceArgs)
  /\ \E objects \in ObstacleLists : InitEngineVars(MoveConfig, objects)

\* ---------------------------------------------------------------------------
\* checkCollision on its own: one call, at a position on or next to a whole
\* unit, in the world and with the obstacle lists of SpecMove.
HitCoords ==
  { u * PosScale + part : u \in (0 - HitMargin)..MaxHitCoord, part \in {0, 1} }

CheckCollision(x, y) ==
  /\ hitInput' = [x |-> x, y |-> y, called |-> TRUE]
  /\ hitResult' = checkCollision(engineConfig, collisionObjects, x, y)
  /\ UNCHANGED <<serviceVars, clientVars, idVars, genVars, rngVars, viewVars, placeVars, mockVars, poseVars, worldVars,
                 engineVars>>

\* One call in a run.
NextHitbox ==
  /\ ~hitInput.called
  /\ \E x \in HitCoords, y \in HitCoords : CheckCollision(x, y)

SpecHitbox == InitMove /\ [][NextHitbox]_vars

\* Keys of the key events: the movement keys and one other key.
EventKeys == MovementKeys \cup {"x"}

\* handleKeyDown.  A key event is a discrete event: React renders the new
\* keysPressed before anything else runs.
handleKeyDown(key) ==
  /\ keyEvents' = keyEvents + 1
  /\ keysPressed' = IF key \in MovementKeys THEN keysPressed \cup {key} ELSE keysPressed
  /\ UNCHANGED <<serviceVars, clientVars, idVars, genVars, rngVars, viewVars, placeVars, mockVars, hitVars, poseVars, worldVars, playerPosition, positionUpdates, direction,
                 directionUpdates, isMoving, movingUpdates, animationFrame, frameUpdates,
                 collisionObjects, animationTimer, lastFrameTime, targetPosition,
                 engineConfig, ticks, lastTick>>

\* handleKeyUp
handleKeyUp(key) ==
  /\ keyEvents' = keyEvents + 1
  /\ keysPressed' = keysPressed \ {key}
  /\ UNCHANGED <<serviceVars, clientVars, idVars, genVars, rngVars, viewVars, placeVars, mockVars, hitVars, poseVars, worldVars, playerPosition, positionUpdates, direction,
                 directionUpdates, isMoving, movingUpdates, animationFrame, frameUpdates,
                 collisionObjects, animationTimer, lastFrameTime, targetPosition,
                 engineConfig, ticks, lastTick>>

\* The keydown and keyup listeners of Game.
KeyDown(key) ==
  /\ keyEvents < MaxKeyEvents
  /\ handleKeyDown(key)

KeyUp(key) ==
  /\ keyEvents < MaxKeyEvents
  /\ handleKeyUp(key)

\* Gaps between two frames, in ms: a 60 Hz frame and a stall.
Deltas == {16, 250}

\* deltaTime as it is, without the cap
clampDeltaTimeOff(deltaTime) == deltaTime

\* Math.min(deltaTime, 100), in 1/100 ms
clampDeltaTime(deltaTime) == Min(deltaTime, 100 * 100)

\* updatePlayerMovement(time)
updatePlayerMovement(time) ==
  /\ ticks' = ticks + 1
  /\ LET deltaTime == IF lastFrameTime # 0 THEN (time - lastFrameTime) * 100 ELSE 1667
         clampedDeltaTime == clampDeltaTime(deltaTime)
         targetPos == targetPosition
         frameSpeed == frameSpeedOf(engineConfig, clampedDeltaTime)
         m == handleMovementInput(engineConfig, collisionObjects, keysPressed,
                                  frameSpeed, targetPos, direction)
         timer == animationTimer + clampedDeltaTime
     IN  /\ lastFrameTime' = time
         /\ targetPosition' = [x |-> m.newX, y |-> m.newY]
         /\ directionUpdates' = IF m.newDirection # direction
                                THEN Append(directionUpdates, m.newDirection)
                                ELSE directionUpdates
         /\ movingUpdates' = IF m.moving # isMoving
                             THEN Append(movingUpdates, m.moving)
                             ELSE movingUpdates
         /\ positionUpdates' = IF tooFar(playerPosition, targetPos)
                               THEN Append(positionUpdates,
                                           interpolate(playerPosition, targetPos,
                                                       clampedDeltaTime))
                               ELSE positionUpdates
         /\ animationTimer' = IF m.moving
                              THEN (IF timer > 120 * 100 THEN 0 ELSE timer)
                              ELSE animationTimer
         /\ frameUpdates' = IF m.moving
                            THEN (IF timer > 120 * 100
                                  THEN Append(frameUpdates, "next") ELSE frameUpdates)
                            ELSE (IF animationFrame # 0
                                  THEN Append(frameUpdates, "reset") ELSE frameUpdates)
         /\ lastTick' = [keys |-> keysPressed,
                         gap |-> IF lastFrameTime # 0 THEN time - lastFrameTime ELSE 0,
                         clampedDeltaTime |-> clampedDeltaTime,
                         targetBefore |-> targetPos,
                         directionBefore |-> direction,
                         queued |-> tooFar(playerPosition, targetPos),
                         keysEver |-> lastTick.keysEver \cup keysPressed,
                         keySets |-> IF ticks = 0 \/ keysPressed # lastTick.keys
                                     THEN lastTick.keySets + 1 ELSE lastTick.keySets,
                         idleTicks |->
                           IF keysPressed # {} \/ positionUpdates # <<>> THEN 0
                           ELSE IF lastTick.idleTicks > 0 /\ lastFrameTime # 0
                                   /\ time - lastFrameTime = lastTick.gap
                                THEN lastTick.idleTicks + 1 ELSE 1,
                         clampedSum |-> lastTick.clampedSum + clampedDeltaTime,
                         runTime |->
                           IF m.moving
                           THEN (IF lastTick.keys # {} /\ ~lastTick.advanced
                                 THEN lastTick.runTime ELSE 0) + clampedDeltaTime
                           ELSE 0,
                         advanced |-> m.moving /\ timer > 120 * 100]
  /\ UNCHANGED <<serviceVars, clientVars, idVars, genVars, rngVars, viewVars, placeVars, mockVars, hitVars, poseVars, worldVars, playerPosition, direction, isMoving,
                 animationFrame, keysPressed, collisionObjects, engineConfig, keyEvents>>

\* A frame of the game loop: updatePlayerMovement(time), time = lastFrameTime + gap
Tick(gap) ==
  /\ ticks < MaxTicks
  /\ updatePlayerMovement(lastFrameTime + gap)

\* The engine's part of a render: the queued updates become the state.
RenderEngine ==
  /\ \/ positionUpdates # <<>> \/ directionUpdates # <<>>
     \/ movingUpdates # <<>> \/ frameUpdates # <<>>
  /\ playerPosition' = IF positionUpdates = <<>> THEN playerPosition
                       ELSE positionUpdates[Len(positionUpdates)]
  /\ direction' = IF directionUpdates = <<>> THEN direction
                  ELSE directionUpdates[Len(directionUpdates)]
  /\ isMoving' = IF movingUpdates = <<>> THEN isMoving
                 ELSE movingUpdates[Len(movingUpdates)]
  /\ animationFrame' = applyFrameUpdates(animationFrame, frameUpdates)
  /\ positionUpdates' = <<>>
  /\ directionUpdates' = <<>>
  /\ movingUpdates' = <<>>
  /\ frameUpdates' = <<>>
  /\ UNCHANGED <<serviceVars, clientVars, idVars, genVars, rngVars, viewVars, placeVars, mockVars, hitVars, poseVars, worldVars, keysPressed, collisionObjects,
                 animationTimer, lastFrameTime, targetPosition, engineConfig,
                 ticks, keyEvents, lastTick>>

\* A run has at most MaxMoveSteps frames and key events.
NextMove ==
  \/ ticks + keyEvents < MaxMoveSteps /\ \E key \in EventKeys : KeyDown(key)
  \/ ticks + keyEvents < MaxMoveSteps /\ \E key \in EventKeys : KeyUp(key)
  \/ ticks + keyEvents < MaxMoveSteps /\ \E gap \in Deltas : Tick(gap)
  \/ RenderEngine

SpecMove == InitMove /\ [][NextMove]_vars

(***************************************************************************)
(* Game: the throttled position update effect                              *)
(***************************************************************************)
positionUpdateInterval == 100

\* The throttle left out.
throttleOff(now, last) == TRUE

\* now - lastPositionUpdate.current > positionUpdateInterval
throttle(now, last) == now - last > positionUpdateInterval

\* handleLogin with connect resolved true: the client is connected,
\* setLoggedIn(true).
PoseLogin ==
  /\ ~loggedIn
  /\ loggedIn' = TRUE
  /\ isConnected' = TRUE
  /\ poseDue' = TRUE
  /\ UNCHANGED <<poseClock, lastPositionUpdate, poseEffects, poseChanges>>
  /\ UNCHANGED <<serviceVars, clientVars, idVars, genVars, rngVars, viewVars, placeVars, mockVars, hitVars, engineVars,
                 loadedChunks, worldElements, loadedChunksRef, worldElementsRef,
                 chunkUpdates, elementUpdates, mounted, steps, generateLog, lastLoad,
                 lastMerge, scheduledKeys>>

\* The socket's disconnect and connect events.
SetConnected(connected) ==
  /\ loggedIn
  /\ isConnected # connected
  /\ isConnected' = connected
  /\ UNCHANGED <<poseClock, lastPositionUpdate, poseEffects, poseDue, poseChanges>>
  /\ UNCHANGED <<serviceVars, clientVars, idVars, genVars, rngVars, viewVars, placeVars, mockVars, hitVars, worldVars, engineVars>>

\* Time passes.
PoseGaps == {50, 51}

PoseWait(gap) ==
  /\ poseClock + gap <= PoseEpoch + MaxPoseTime
  /\ poseClock' = poseClock + gap
  /\ UNCHANGED <<lastPositionUpdate, isConnected, poseEffects, poseDue, poseChanges>>
  /\ UNCHANGED <<serviceVars, clientVars, idVars, genVars, rngVars, viewVars, placeVars, mockVars, hitVars, worldVars, engineVars>>

\* The effect, run after a render in which playerPosition, playerDirection,
\* isMoving or loggedIn changed.  sent: multiplayerClient.updatePosition was
\* called.
positionUpdateEffect ==
  /\ loggedIn
  /\ \E now \in {poseClock} :
       IF throttle(now, lastPositionUpdate)
       THEN /\ poseEffects' = Append(poseEffects, [at |-> now, sent |-> isConnected,
                                                   isMoving |-> isMoving])
            /\ lastPositionUpdate' = now
       ELSE /\ poseEffects' = Append(poseEffects, [at |-> now, sent |-> FALSE,
                                                   isMoving |-> isMoving])
            /\ UNCHANGED lastPositionUpdate
  /\ UNCHANGED <<poseClock, isConnected, poseChanges>>
  /\ UNCHANGED <<serviceVars, clientVars, idVars, genVars, rngVars, viewVars, placeVars, mockVars, hitVars, worldVars, engineVars>>

\* The effect run at any moment after login, as often as the dependencies may
\* change.
PoseEffect ==
  /\ Len(poseEffects) < MaxPoseEffects
  /\ positionUpdateEffect
  /\ UNCHANGED poseDue

NextPose ==
  \/ PoseLogin
  \/ \E connected \in BOOLEAN : SetConnected(connected)
  \/ \E gap \in PoseGaps : PoseWait(gap)
  \/ PoseEffect

SpecPose == Init /\ [][NextPose]_vars

\* ---------------------------------------------------------------------------
\* The effect run when React runs it: once after every render in which a
\* dependency changed.  Of the dependencies, isMoving changes.

\* useGameEngine's setIsMoving rendered: the player starts or stops.
PoseChange ==
  /\ loggedIn
  /\ poseChanges < MaxPoseChanges
  /\ poseChanges' = poseChanges + 1
  /\ isMoving' = ~isMoving
  /\ poseDue' = TRUE
  /\ UNCHANGED <<poseClock, lastPositionUpdate, isConnected, poseEffects>>
  /\ UNCHANGED <<serviceVars, clientVars, idVars, genVars, rngVars, viewVars, placeVars, mockVars, hitVars, worldVars,
                 playerPosition, positionUpdates, direction, directionUpdates, movingUpdates,
                 animationFrame, frameUpdates, keysPressed, collisionObjects, animationTimer,
                 lastFrameTime, targetPosition, engineConfig, ticks, keyEvents, lastTick>>

PoseRun ==
  /\ poseDue
  /\ positionUpdateEffect
  /\ poseDue' = FALSE

NextPoseLive ==
  \/ PoseLogin
  \/ \E connected \in BOOLEAN : SetConnected(connected)
  \/ \E gap \in PoseGaps : PoseWait(gap)
  \/ PoseChange
  \/ PoseRun

\* React runs a pending effect.
SpecPoseLive == Init /\ [][NextPoseLive]_vars /\ WF_vars(PoseRun)

(***************************************************************************)
(* MultiplayerService                                                      *)
(*                                                                         *)
(* A WebSocket is a record: readyState, whether the promise of the connect *)
(* call that created it is settled, and whether that call was made by the  *)
(* reconnect timer, whose promise has the catch of line 134.  A timer is   *)
(* a record: its delay, whether it is pending, and its callback ("join"    *)
(* for line 51, "reconnect" for line 131).                                 *)
(***************************************************************************)
maxReconnectAttempts == 5

otherVars == <<clientVars, idVars, genVars, rngVars, viewVars, placeVars, mockVars, hitVars, poseVars,
               worldVars, engineVars>>

\* clearTimeout(id)
clearTimeout(timers, id) ==
  IF id \in 1..Len(timers) THEN [timers EXCEPT ![id].pending = FALSE] ELSE timers

\* attemptReconnect(), lines 114-139: the service and the timers after it.
attemptReconnectKeeping(svc, timers) ==
  IF svc.mockMode \/ svc.reconnectAttempts >= maxReconnectAttempts
  THEN [svc |-> svc, timers |-> timers]
  ELSE LET attempts == svc.reconnectAttempts + 1
           delay == IF 1000 * 2^attempts < 30000 THEN 1000 * 2^attempts ELSE 30000
       IN [svc |-> [svc EXCEPT !.reconnectAttempts = attempts,
                               !.reconnectTimeout = Len(timers) + 1],
           timers |-> Append(timers,
                             [delay |-> delay, pending |-> TRUE, callback |-> "reconnect"])]

attemptReconnect(svc, timers) ==
  IF svc.mockMode \/ svc.reconnectAttempts >= maxReconnectAttempts
  THEN [svc |-> svc, timers |-> timers]
  ELSE LET attempts == svc.reconnectAttempts + 1
           delay == IF 1000 * 2^attempts < 30000 THEN 1000 * 2^attempts ELSE 30000
           cleared == IF svc.reconnectTimeout # 0
                      THEN clearTimeout(timers, svc.reconnectTimeout) ELSE timers
       IN [svc |-> [svc EXCEPT !.reconnectAttempts = attempts,
                               !.reconnectTimeout = Len(cleared) + 1],
           timers |-> Append(cleared,
                             [delay |-> delay, pending |-> TRUE, callback |-> "reconnect"])]

\* connect(), lines 34-111, called by the user or by the reconnect timer:
\* the service, the sockets and the timers after it.
connect(svc, sockets, timers, byTimer) ==
  IF svc.isConnected
  THEN [svc |-> svc, sockets |-> sockets, timers |-> timers]
  ELSE IF svc.mockMode
  THEN [svc |-> [svc EXCEPT !.isConnected = TRUE],
        sockets |-> sockets,
        timers |-> Append(timers, [delay |-> 100, pending |-> TRUE, callback |-> "join"])]
  ELSE [svc |-> [svc EXCEPT !.socket = Len(sockets) + 1],
        sockets |-> Append(sockets, [readyState |-> "connecting", settled |-> FALSE,
                                     byTimer |-> byTimer]),
        timers |-> timers]

\* The user calls connect().
ServiceConnect ==
  /\ Len(webSockets) < MaxSockets
  /\ service.mockMode => Len(timeouts) < MaxTimeouts
  /\ \E r \in {connect(service, webSockets, timeouts, FALSE)} :
       /\ service' = r.svc
       /\ webSockets' = r.sockets
       /\ timeouts' = r.timers
  /\ disconnected' = FALSE
  /\ UNCHANGED otherVars

\* socket.onopen, lines 78-83.
SocketOpen(i) ==
  /\ i \in 1..Len(webSockets)
  /\ webSockets[i].readyState = "connecting"
  /\ webSockets' = [webSockets EXCEPT ![i].readyState = "open", ![i].settled = TRUE]
  /\ service' = [service EXCEPT !.isConnected = TRUE, !.reconnectAttempts = 0]
  /\ UNCHANGED <<timeouts, disconnected>>
  /\ UNCHANGED otherVars

\* socket.onerror, lines 91-96: the connection fails or breaks; the close
\* event follows.  A rejected promise of a reconnect runs the catch of
\* line 134.
SocketError(i) ==
  /\ i \in 1..Len(webSockets)
  /\ webSockets[i].readyState \in {"connecting", "open"}
  /\ LET rejects == ~service.isConnected /\ ~webSockets[i].settled
         r == IF rejects /\ webSockets[i].byTimer
              THEN attemptReconnect(service, timeouts)
              ELSE [svc |-> service, timers |-> timeouts]
     IN /\ webSockets' = [webSockets EXCEPT ![i].readyState = "closing",
                                            ![i].settled = @ \/ rejects]
        /\ service' = r.svc
        /\ timeouts' = r.timers
  /\ UNCHANGED disconnected
  /\ UNCHANGED otherVars

\* socket.onclose, lines 85-89: after an error, after close(), or when the
\* server closes the connection.
SocketClose(i) ==
  /\ i \in 1..Len(webSockets)
  /\ webSockets[i].readyState \in {"open", "closing"}
  /\ webSockets' = [webSockets EXCEPT ![i].readyState = "closed"]
  /\ \E r \in {attemptReconnect([service EXCEPT !.isConnected = FALSE], timeouts)} :
       /\ service' = r.svc
       /\ timeouts' = r.timers
  /\ UNCHANGED disconnected
  /\ UNCHANGED otherVars

\* A timer fires: the callback of line 51 dispatches an event to the
\* handlers, the callback of lines 131-138 connects again.
TimeoutFires(t) ==
  /\ t \in 1..Len(timeouts)
  /\ timeouts[t].pending
  /\ Len(webSockets) < MaxSockets
  /\ LET fired == [timeouts EXCEPT ![t].pending = FALSE]
         r == IF timeouts[t].callback = "reconnect"
              THEN connect(service, webSockets, fired, TRUE)
              ELSE [svc |-> service, sockets |-> webSockets, timers |-> fired]
     IN /\ service' = r.svc
        /\ webSockets' = r.sockets
        /\ timeouts' = r.timers
  /\ UNCHANGED disconnected
  /\ UNCHANGED otherVars

\* disconnect(), lines 142-158.
ServiceDisconnect ==
  /\ IF service.mockMode
     THEN /\ service' = [service EXCEPT !.isConnected = FALSE]
          /\ UNCHANGED <<webSockets, timeouts>>
     ELSE /\ webSockets' =
               IF service.socket # 0 /\ service.isConnected
                  /\ webSockets[service.socket].readyState \in {"connecting", "open"}
               THEN [webSockets EXCEPT ![service.socket].readyState = "closing"]
               ELSE webSockets
          /\ timeouts' = IF service.reconnectTimeout # 0
                         THEN clearTimeout(timeouts, service.reconnectTimeout)
                         ELSE timeouts
          /\ service' = [service EXCEPT !.reconnectTimeout = 0, !.isConnected = FALSE]
  /\ disconnected' = (disconnected \/ service.isConnected)
  /\ UNCHANGED otherVars

InitService ==
  /\ InitIds /\ InitGenVars /\ InitWorldVars /\ InitEngineVars(GAME_CONFIG, <<>>)
  /\ InitRngVars(0) /\ InitViewVars /\ InitMockVars /\ InitHitVars /\ InitPoseVars
  /\ InitPlaceVars(NoPlaceArgs)
  /\ \E mockMode \in BOOLEAN : InitServiceVars(mockMode)
  /\ InitClientVars(TRUE)

NextService ==
  \/ ServiceConnect
  \/ \E i \in DOMAIN webSockets : SocketOpen(i)
  \/ \E i \in DOMAIN webSockets : SocketError(i)
  \/ \E i \in DOMAIN webSockets : SocketClose(i)
  \/ \E t \in DOMAIN timeouts : TimeoutFires(t)
  \/ ServiceDisconnect

SpecService == InitService /\ [][NextService]_vars

(***************************************************************************)
(* MultiplayerClient and RemotePlayers                                     *)
(*                                                                         *)
(* The server is not part of the sources: what it sends is an input.  On   *)
(* every socket it gives the local player an id when it receives           *)
(* player:join, and it may then send player:joined, world:players,         *)
(* player:move and player:left for the local player and for a remote one,  *)
(* in any order.                                                           *)
(***************************************************************************)
LocalUser == "alice"
LocalIds == {"a", "b"}      \* the ids the server may give the local player
RemotePlayer == [id |-> "r", username |-> "bob"]

clientRest == <<serviceVars, idVars, genVars, rngVars, viewVars, placeVars, mockVars, hitVars,
                poseClock, lastPositionUpdate, poseEffects, poseDue, poseChanges,
                worldVars, engineVars>>

\* The local player as the server describes it on socket i.
localPlayer(i) == [id |-> ioSockets[i].id, username |-> LocalUser]

\* The players the server may name on socket i.
knownPlayers(i) == {localPlayer(i), RemotePlayer}

\* handlePlayerJoin, lines 254-256, with the handler of RemotePlayers
\* (RemovePlayers.tsx lines 16-27).
handlePlayerJoin(id) ==
  /\ handlerCalls' = [handlerCalls EXCEPT !.join = @ \cup {id}]
  /\ players' = players \cup {id}

\* connect(), lines 66-192, made while not connected.  The login form is
\* disabled while a call is pending (game.tsx lines 79 and 113), so calls do
\* not overlap.
ClientConnect ==
  /\ ~isConnected
  /\ \A j \in DOMAIN ioSockets : ioSockets[j].promise # "pending"
  /\ Len(ioSockets) < MaxClientSockets
  /\ client' = [client EXCEPT !.username = LocalUser, !.socket = Len(ioSockets) + 1]
  /\ ioSockets' = Append(ioSockets, [state |-> "connecting", id |-> "", promise |-> "pending"])
  /\ answered' = 0
  /\ UNCHANGED <<isConnected, players, handlerCalls>>
  /\ UNCHANGED clientRest

\* 'connect', lines 82-89: the client emits player:join, and the server
\* gives the player an id.
SocketConnect(i, id) ==
  /\ ioSockets[i].state = "connecting"
  /\ ioSockets' = [ioSockets EXCEPT ![i].state = "connected", ![i].id = id]
  /\ answered' = 0
  /\ UNCHANGED <<client, isConnected, players, handlerCalls>>
  /\ UNCHANGED clientRest

\* 'connect_error', lines 181-185.
ConnectError(i) ==
  /\ ioSockets[i].state = "connecting"
  /\ ioSockets[i].promise = "pending"
  /\ ioSockets' = [ioSockets EXCEPT ![i].promise = "rejected"]
  /\ answered' = 0
  /\ UNCHANGED <<client, isConnected, players, handlerCalls>>
  /\ UNCHANGED clientRest

\* 'player:joined', lines 92-112.
PlayerJoined(i, player) ==
  /\ ioSockets[i].state = "connected"
  /\ answered' = IF /\ player = localPlayer(i)
                     /\ ioSockets[i].promise = "pending"
                     /\ client.socket = i
                  THEN i ELSE 0
  /\ IF player.username = client.username /\ client.playerId = ""
     THEN /\ client' = [client EXCEPT !.playerId = player.id]
          /\ isConnected' = TRUE
          /\ ioSockets' = [ioSockets EXCEPT
                             ![i].promise = IF @ = "pending" THEN "resolved" ELSE @]
          /\ UNCHANGED <<players, handlerCalls>>
     ELSE IF player.id # client.playerId
     THEN /\ handlePlayerJoin(player.id)
          /\ UNCHANGED <<client, isConnected, ioSockets>>
     ELSE UNCHANGED <<client, isConnected, ioSockets, players, handlerCalls>>
  /\ UNCHANGED clientRest

\* 'world:players', lines 152-164.
WorldPlayers(i, list) ==
  /\ ioSockets[i].state = "connected"
  /\ list # {}
  /\ answered' = 0
  /\ \E added \in {{player.id : player \in {p \in list : p.id # client.playerId}}} :
       /\ handlerCalls' = [handlerCalls EXCEPT !.join = @ \cup added]
       /\ players' = players \cup added
  /\ UNCHANGED <<client, isConnected, ioSockets>>
  /\ UNCHANGED clientRest

\* 'player:move', lines 121-137, with the handler of RemotePlayers
\* (RemovePlayers.tsx lines 40-62), which changes a player's pose and not the
\* keys of the map.
PlayerMove(i, playerId) ==
  /\ ioSockets[i].state = "connected"
  /\ answered' = 0
  /\ handlerCalls' = IF playerId = client.playerId THEN handlerCalls
                     ELSE [handlerCalls EXCEPT !.move = @ \cup {playerId}]
  /\ UNCHANGED <<client, isConnected, ioSockets, players>>
  /\ UNCHANGED clientRest

\* 'player:left', lines 115-118, with the handler of RemotePlayers
\* (RemovePlayers.tsx lines 30-37).
PlayerLeft(i, playerId) ==
  /\ ioSockets[i].state = "connected"
  /\ answered' = 0
  /\ players' = players \ {playerId}
  /\ UNCHANGED <<client, isConnected, ioSockets, handlerCalls>>
  /\ UNCHANGED clientRest

\* 'disconnect', lines 175-178: the connection is lost.
SocketDisconnect(i) ==
  /\ ioSockets[i].state = "connected"
  /\ ioSockets' = [ioSockets EXCEPT ![i].state = "disconnected"]
  /\ isConnected' = FALSE
  /\ answered' = 0
  /\ UNCHANGED <<client, players, handlerCalls>>
  /\ UNCHANGED clientRest

\* disconnect(), lines 210-222.  socket.disconnect() closes the socket and
\* delivers 'disconnect' to the handler of line 175 before it returns.
ClientDisconnect ==
  /\ IF client.mockMode
     THEN UNCHANGED <<client, ioSockets>>
     ELSE /\ ioSockets' = IF client.socket # 0
                          THEN [ioSockets EXCEPT ![client.socket].state = "disconnected"]
                          ELSE ioSockets
          /\ client' = [client EXCEPT !.socket = 0]
  /\ isConnected' = FALSE
  /\ answered' = 0
  /\ UNCHANGED <<players, handlerCalls>>
  /\ UNCHANGED clientRest

InitClient ==
  /\ InitIds /\ InitGenVars /\ InitWorldVars /\ InitEngineVars(GAME_CONFIG, <<>>)
  /\ InitRngVars(0) /\ InitViewVars /\ InitMockVars /\ InitHitVars /\ InitPoseVars
  /\ InitPlaceVars(NoPlaceArgs) /\ InitServiceVars(TRUE)
  /\ \E mockMode \in BOOLEAN : InitClientVars(mockMode)

NextClient ==
  \/ ClientConnect
  \/ \E i \in DOMAIN ioSockets, id \in LocalIds : SocketConnect(i, id)
  \/ \E i \in DOMAIN ioSockets : ConnectError(i)
  \/ \E i \in DOMAIN ioSockets : \E player \in knownPlayers(i) : PlayerJoined(i, player)
  \/ \E i \in DOMAIN ioSockets : \E list \in SUBSET knownPlayers(i) : WorldPlayers(i, list)
  \/ \E i \in DOMAIN ioSockets : \E player \in knownPlayers(i) : PlayerMove(i, player.id)
  \/ \E i \in DOMAIN ioSockets : \E player \in knownPlayers(i) : PlayerLeft(i, player.id)
  \/ \E i \in DOMAIN ioSockets : SocketDisconnect(i)
  \/ ClientDisconnect

SpecClient == InitClient /\ [][NextClient]_vars

(***************************************************************************)
(* MultiplayerClient.generateMockChunks                                    *)
(*                                                                         *)
(* The colour strings of trees and bushes are left out; their three draws  *)
(* are made.                                                               *)
(***************************************************************************)
\* The for loop that creates trees, and the one that creates bushes: seven
\* draws per element (size, x, y, three for the colour, variant).
RECURSIVE mockSized(_, _, _, _, _, _, _)
mockSized(st, count, x, y, sizeBase, sizeSpan, idBase) ==
  IF st.i >= count THEN st
  ELSE LET s1 == createSeededRandom(st.s)
           size == sizeBase + floorRandom(s1, sizeSpan)
           s2 == createSeededRandom(s1)
           s3 == createSeededRandom(s2)
           s7 == afterDraws(s3, 4)
           element == [id |-> idBase + (x * 10000 + y) * 100 + st.i,
                       x |-> x * chunkSize + floorRandom(s2, chunkSize - size),
                       y |-> y * chunkSize + floorRandom(s3, chunkSize - size),
                       size |-> size,
                       variant |-> floorRandom(s7, 3)]
       IN  mockSized([i |-> st.i + 1, s |-> s7, made |-> Append(st.made, element)],
                     count, x, y, sizeBase, sizeSpan, idBase)

\* The for loop that creates flowers: three draws per flower.
RECURSIVE mockFlowers(_, _, _, _)
mockFlowers(st, count, x, y) ==
  IF st.i >= count THEN st
  ELSE LET s1 == createSeededRandom(st.s)
           s2 == createSeededRandom(s1)
           s3 == createSeededRandom(s2)
           flower == [id |-> 3000000 + (x * 10000 + y) * 100 + st.i,
                      x |-> x * chunkSize + floorRandom(s1, chunkSize),
                      y |-> y * chunkSize + floorRandom(s2, chunkSize),
                      color |-> floorRandom(s3, 9)]
       IN  mockFlowers([i |-> st.i + 1, s |-> s3, made |-> Append(st.made, flower)],
                       count, x, y)

\* The body of the two nested for loops for a chunk inside the world.
mockChunk(x, y) ==
  LET s1 == createSeededRandom(x * 10000 + y)
      treeCount == 5 + floorRandom(s1, 10)
      trees == mockSized([i |-> 0, s |-> s1, made |-> <<>>], treeCount, x, y, 80, 40, 1000000)
      s2 == createSeededRandom(trees.s)
      bushCount == 8 + floorRandom(s2, 7)
      bushes == mockSized([i |-> 0, s |-> s2, made |-> <<>>], bushCount, x, y, 40, 20, 2000000)
      s3 == createSeededRandom(bushes.s)
      flowerCount == 15 + floorRandom(s3, 20)
      flowers == mockFlowers([i |-> 0, s |-> s3, made |-> <<>>], flowerCount, x, y)
  IN  [x |-> x, y |-> y, trees |-> trees.made, bushes |-> bushes.made,
       flowers |-> flowers.made, isLoaded |-> TRUE]

\* mockChunk over the chunks of the world (the table is evaluated once).
mockChunkTable == [c \in ChunkCoords \X ChunkCoords |-> mockChunk(c[1], c[2])] @@ <<>>

\* The 3x3 grid around the centre in the order of the loops, x outer, y inner,
\* without the chunks outside the world.
mockGrid(centerChunkX, centerChunkY) ==
  SelectSeq([k \in 1..9 |-> <<centerChunkX - 1 + ((k - 1) \div 3),
                              centerChunkY - 1 + ((k - 1) % 3)>>],
            LAMBDA c : ~(c[1] < 0 \/ c[2] < 0 \/ c[1] * chunkSize >= worldWidth
                          \/ c[2] * chunkSize >= worldHeight))

generateMockChunks(centerX, centerY) ==
  LET grid == mockGrid(centerX \div chunkSize, centerY \div chunkSize)
  IN  [k \in 1..Len(grid) |-> mockChunkTable[grid[k]]]

\* The centres generateMockChunks is called with: the one of the connect
\* handler, (2500, 2500), and the middle of every chunk of the world.
MockCentres == {c * chunkSize + chunkSize \div 2 : c \in ChunkCoords}

GenerateMockChunks(centerX, centerY) ==
  /\ mockCalls = 0
  /\ mockChunks' = generateMockChunks(centerX, centerY)
  /\ mockCalls' = mockCalls + 1
  /\ UNCHANGED <<serviceVars, clientVars, idVars, genVars, rngVars, viewVars, placeVars, hitVars, poseVars, worldVars, engineVars>>

NextMock ==
  \E centerX \in MockCentres \cup {2500}, centerY \in MockCentres \cup {2500} :
    GenerateMockChunks(centerX, centerY)

SpecMock == Init /\ [][NextMock]_vars

\* ---------------------------------------------------------------------------
\* generateTrees and generateBushes, one pass of the for loop at a time, for
\* chunks of the configured size and for chunks hardly larger than a tree.

PlaceChunkSizes == {150, chunkSize}

\* generateTrees(0, 0, cSize, count, seed), and generateBushes(0, 0, cSize,
\* count, seed + 1, trees) with the first tree generateTrees places for seed.
PlaceArgs ==
  { [cSize |-> cSize, count |-> count, seed |-> seed,
     sizeBase |-> 80, sizeSpan |-> 40, existing |-> <<>>] :
      cSize \in PlaceChunkSizes, count \in 1..MaxPlaceCount, seed \in 0..MaxPlaceSeed }
  \cup
  { [cSize |-> cSize, count |-> count, seed |-> seed + 1,
     sizeBase |-> 40, sizeSpan |-> 20,
     existing |-> placeSized([i |-> 0, s |-> seed, placed |-> <<>>], 1,
                             0, 0, cSize, 80, 40, <<>>)] :
      cSize \in PlaceChunkSizes, count \in 1..MaxPlaceCount, seed \in 0..MaxPlaceSeed }

InitPlace ==
  /\ InitIds /\ InitGenVars /\ InitWorldVars /\ InitEngineVars(GAME_CONFIG, <<>>)
  /\ InitRngVars(0) /\ InitViewVars /\ InitMockVars /\ InitHitVars /\ InitServiceVars(TRUE) /\ InitClientVars(TRUE) /\ InitPoseVars
  /\ \E args \in PlaceArgs : InitPlaceVars(args)

\* One pass of the for loop: the search for a position, and the push.
PlaceNext ==
  /\ placeState.i < placeArgs.count
  /\ \E try \in {positionFor(placeState, 0, 0, placeArgs.cSize, placeArgs.sizeBase,
                              placeArgs.sizeSpan, placeArgs.existing)} :
       placeTries' = Append(placeTries,
                            [size |-> try.size, from |-> try.from,
                             attempts |-> try.found.attempts,
                             validPosition |-> try.found.validPosition,
                             x |-> try.found.x, y |-> try.found.y,
                             others |-> placeArgs.existing \o placeState.placed])
  /\ placeState' = placeOne(placeState, 0, 0, placeArgs.cSize, placeArgs.sizeBase,
                            placeArgs.sizeSpan, placeArgs.existing)
  /\ UNCHANGED <<serviceVars, clientVars, placeArgs, idVars, genVars, rngVars, viewVars, mockVars, hitVars, poseVars, worldVars, engineVars>>

NextPlace == PlaceNext

SpecPlace == InitPlace /\ [][NextPlace]_vars

\* ---------------------------------------------------------------------------
\* The engine with one key pressed and released several times, over more
\* frames than SpecMove has.

AnimKeyDown ==
  /\ keyEvents < MaxAnimKeyEvents
  /\ handleKeyDown("d")

AnimKeyUp ==
  /\ keyEvents < MaxAnimKeyEvents
  /\ handleKeyUp("d")

AnimTick(gap) ==
  /\ ticks < MaxAnimTicks
  /\ updatePlayerMovement(lastFrameTime + gap)

NextAnim ==
  \/ AnimKeyDown
  \/ AnimKeyUp
  \/ \E gap \in Deltas : AnimTick(gap)
  \/ RenderEngine

SpecAnim == InitMove /\ [][NextAnim]_vars

\* ---------------------------------------------------------------------------
\* The engine with the keys released: after the frames of SpecMove, frames
\* without a key held, each after the render of the one before and all with
\* the same gap.

SmoothKeys == {"d", "ArrowUp"}

SmoothDeltas == {33, 250}

\* The number of frames without a key after which the rendered position has
\* reached a target at most MaxTicks frames of 100 ms away.
SmoothBound == 4 * MaxTicks + 5

SmoothTick(gap) ==
  /\ ticks < MaxTicks + SmoothBound
  /\ keysPressed = {}
  /\ lastFrameTime # 0
  /\ positionUpdates = <<>> /\ directionUpdates = <<>>
  /\ movingUpdates = <<>> /\ frameUpdates = <<>>
  /\ lastTick.idleTicks > 0 => gap = lastTick.gap
  /\ updatePlayerMovement(lastFrameTime + gap)

NextSmooth ==
  \/ \E key \in SmoothKeys : KeyDown(key)
  \/ \E key \in SmoothKeys : KeyUp(key)
  \/ \E gap \in Deltas : Tick(gap)
  \/ \E gap \in SmoothDeltas : SmoothTick(gap)
  \/ RenderEngine

SpecSmooth == InitMove /\ [][NextSmooth]_vars

(***************************************************************************)
(* Properties of the chunk store                                           *)
(***************************************************************************)
Range(seq) == {seq[i] : i \in 1..Len(seq)}
NoDuplicates(seq) == \A i, j \in 1..Len(seq) : i # j => seq[i] # seq[j]
Last(seq) == seq[Len(seq)]

Pending == chunkUpdates # <<>> \/ elementUpdates # <<>> \/ positionUpdates # <<>>
\* Every state update is rendered and the effects have run.
Settled == mounted /\ ~Pending

\* The state the next render will show.
effChunks == IF chunkUpdates = <<>> THEN loadedChunks ELSE Last(chunkUpdates)
effElements == applyElementUpdates(worldElements, elementUpdates)

\* This step is a call of updateWithServerChunks.
Delivery == lastMerge'.calls = lastMerge.calls + 1
\* ... with the batch of the previous call, no loadChunks call in between.
Redelivery == Delivery /\ lastMerge'.batch = lastMerge.batch

\* chunk i of the batch is the first of the batch with its key
FirstOfKey(batch, i) ==
  \A j \in 1..(i - 1) : getChunkKey(batch[j].x, batch[j].y) # getChunkKey(batch[i].x, batch[i].y)

IsPrefix(s, t) == Len(s) <= Len(t) /\ \A i \in 1..Len(s) : t[i] = s[i]
Suffix(s, n) == [i \in 1..(Len(s) - n) |-> s[n + i]]

\* The cells within renderDistance of the chunk of a position, inside the world.
cellsAround(position) ==
  LET cx == position.x \div (chunkSize * PosScale)
      cy == position.y \div (chunkSize * PosScale)
  IN  { c \in ((cx - renderDistance)..(cx + renderDistance))
              \X ((cy - renderDistance)..(cy + renderDistance)) :
          /\ c[1] >= 0 /\ c[2] >= 0
          /\ c[1] * chunkSize < worldWidth /\ c[2] * chunkSize < worldHeight }

\* C2 (as claimed): generateChunk runs at most once per chunk key, and a chunk
\* stored under a key of loadedChunks is never replaced by another.
C2_ChunkImmutability ==
  [][ /\ NoDuplicates(generateLog')
      /\ \A k \in DOMAIN loadedChunks :
           k \in DOMAIN loadedChunks' /\ loadedChunks'[k] = loadedChunks[k] ]_vars

\* C3 (as claimed): once every pending update is rendered, worldElements holds
\* exactly the elements of the chunks of loadedChunks, each of them once.
C3_IndexInSync ==
  Settled =>
    /\ Range(worldElements.trees)
         = UNION {Range(loadedChunks[k].trees) : k \in DOMAIN loadedChunks}
    /\ Range(worldElements.bushes)
         = UNION {Range(loadedChunks[k].bushes) : k \in DOMAIN loadedChunks}
    /\ Range(worldElements.flowers)
         = UNION {Range(loadedChunks[k].flowers) : k \in DOMAIN loadedChunks}
    /\ NoDuplicates(worldElements.trees)
    /\ NoDuplicates(worldElements.bushes)
    /\ NoDuplicates(worldElements.flowers)

\* C4 (as claimed): loadedChunks never loses a key, and once no setLoadedChunks
\* call is waiting it holds every key a loadChunks or updateWithServerChunks
\* call handed to setLoadedChunks.
C4_NoLostInsertion ==
  [][ /\ DOMAIN loadedChunks \subseteq DOMAIN loadedChunks'
      /\ chunkUpdates' = <<>> => scheduledKeys' \subseteq DOMAIN loadedChunks' ]_vars

\* C5 (as claimed): a second updateWithServerChunks call with the same batch,
\* with or without a render in between, changes neither the chunks nor the
\* elements the next render shows.
C5_IdempotentMerge ==
  [][ Redelivery => effChunks' = effChunks /\ effElements' = effElements ]_vars

\* C6 (as claimed): after updateWithServerChunks every chunk of the batch that
\* is the first of its key and whose key was absent is stored as it came, and
\* its elements are in worldElements, whatever lists it carries.
C6_MergeInsertsAbsent ==
  [][ Delivery =>
        \A i \in 1..Len(lastMerge'.batch) :
          LET chunk == lastMerge'.batch[i]
              key == getChunkKey(chunk.x, chunk.y)
          IN  (FirstOfKey(lastMerge'.batch, i) /\ key \notin DOMAIN loadedChunksRef) =>
                /\ key \in DOMAIN effChunks'
                /\ effChunks'[key] = chunk
                /\ Range(chunk.trees) \subseteq Range(effElements'.trees)
                /\ Range(chunk.bushes) \subseteq Range(effElements'.bushes)
                /\ Range(chunk.flowers) \subseteq Range(effElements'.flowers) ]_vars

C8_LoadChunksCoverage ==
  /\ lastLoad # NoLoad =>
       lastLoad.inserted = cellsAround(lastLoad.position) \ lastLoad.before
  /\ \A i \in 1..Len(generateLog) :
       /\ generateLog[i][1] >= 0 /\ generateLog[i][2] >= 0
       /\ generateLog[i][1] * chunkSize < worldWidth
       /\ generateLog[i][2] * chunkSize < worldHeight
  /\ ( /\ lastLoad.position = [x |-> 2500 * PosScale, y |-> 2500 * PosScale]
       /\ lastLoad.before = {} )
       => (lastLoad.inserted = (3..7) \X (3..7) /\ Cardinality(lastLoad.inserted) = 25)

\* C8 witness: a loadChunks call in the far corner of the world, where the
\* square reaches outside the world and overlaps chunks already held.
C8_Witness ==
  /\ lastLoad.position = [x |-> (worldWidth - characterSize) * PosScale,
                          y |-> (worldHeight - characterSize) * PosScale]
  /\ <<7, 7>> \in lastLoad.before
  /\ <<9, 9>> \in lastLoad.inserted
  /\ Cardinality(lastLoad.inserted) = 8

\* C9 (as claimed): once every pending update is rendered and the effects have
\* run, every chunk of the world within renderDistance of the player's chunk
\* is in loadedChunks.
C9_RenderDistanceLoaded ==
  Settled => cellsAround(playerPosition) \subseteq DOMAIN loadedChunks

(***************************************************************************)
(* Properties of the movement engine                                       *)
(***************************************************************************)

\* C1: bounds containment.  From the initial position in the middle of the
\* world, after any key events and updatePlayerMovement ticks and for any
\* fixed obstacle list, the target position stays within
\* [0, worldWidth - characterSize] x [0, worldHeight - characterSize].
C1_BoundsContainment ==
  /\ 0 <= targetPosition.x
  /\ targetPosition.x <= (engineConfig.worldWidth - engineConfig.characterSize) * PosScale
  /\ 0 <= targetPosition.y
  /\ targetPosition.y <= (engineConfig.worldHeight - engineConfig.characterSize) * PosScale

\* A tick with a down key held has brought the target onto the lower limit,
\* which the step before the clamp would have passed.
C1_Witness ==
  /\ ticks > 0
  /\ lastTick.keys \cap {"ArrowDown", "s"} # {}
  /\ targetPosition.y = (engineConfig.worldHeight - engineConfig.characterSize) * PosScale
  /\ lastTick.targetBefore.y < targetPosition.y
  /\ lastTick.targetBefore.y + frameSpeedOf(engineConfig, lastTick.clampedDeltaTime)
       > targetPosition.y


(***************************************************************************)
(* Properties of the generator                                             *)
(***************************************************************************)
sized(chunk) == chunk.trees \o chunk.bushes

\* Twice the distance between the centres of a and b, squared.
centreGap4(a, b) ==
  LET dx == (2 * a.x + a.size) - (2 * b.x + b.size)
      dy == (2 * a.y + a.size) - (2 * b.y + b.size)
  IN  dx * dx + dy * dy

\* C10: no overlap.  In every chunk produced by generateChunk, the centres
\* (x + size/2, y + size/2) of any two distinct elements among its trees and
\* bushes are at least size1/2 + size2/2 + 10 apart.
C10_NoOverlap ==
  \A i, j \in 1..Len(sized(genChunk)) :
    i # j =>
      LET a == sized(genChunk)[i]
          b == sized(genChunk)[j]
      IN  centreGap4(a, b) >= (a.size + b.size + 2 * 10) * (a.size + b.size + 2 * 10)

\* A generated chunk in which a tree pair, a bush pair and a bush-tree pair
\* each keep less than twice the buffer, so that the buffer is what separates
\* them.
C10_Witness ==
  /\ genCalls > 0
  /\ \A kind \in {<<"t", "t">>, <<"b", "b">>, <<"t", "b">>} :
       LET first == IF kind[1] = "t" THEN genChunk.trees ELSE genChunk.bushes
           second == IF kind[2] = "t" THEN genChunk.trees ELSE genChunk.bushes
       IN  \E i \in 1..Len(first), j \in 1..Len(second) :
             /\ first[i].id # second[j].id
             /\ centreGap4(first[i], second[j])
                  < (first[i].size + second[j].size + 4 * 10)
                      * (first[i].size + second[j].size + 4 * 10)


\* An element without its id.
withoutId(element) == [f \in DOMAIN element \ {"id"} |-> element[f]]
withoutIds(elements) == [i \in 1..Len(elements) |-> withoutId(elements[i])]

C12_RandomRange ==
  rngDraws > 0 => (0 <= rngState /\ rngState < 233280)


\* The ids of the logged elements of one species, in generation order.
RECURSIVE loggedIds(_, _)
loggedIds(log, species) ==
  IF log = <<>> THEN <<>>
  ELSE [i \in 1..Len(Head(log)[species]) |-> Head(log)[species][i].id]
         \o loggedIds(Tail(log), species)

StrictlyIncreasing(seq) == \A i \in 1..(Len(seq) - 1) : seq[i] < seq[i + 1]

\* C13 (as claimed): the ids of the generated elements are pairwise distinct;
\* those of one species strictly increase in generation order, from 1000000
\* (trees), 2000000 (bushes) and 3000000 (flowers); no id of one species is an
\* id of another.
C13_IdsUnique ==
  LET treeIds == loggedIds(genLog, "trees")
      bushIds == loggedIds(genLog, "bushes")
      flowerIds == loggedIds(genLog, "flowers")
  IN  /\ StrictlyIncreasing(treeIds)
      /\ StrictlyIncreasing(bushIds)
      /\ StrictlyIncreasing(flowerIds)
      /\ \A i \in 1..Len(treeIds) : 1000000 <= treeIds[i] /\ treeIds[i] < nextTreeId
      /\ \A i \in 1..Len(bushIds) : 2000000 <= bushIds[i] /\ bushIds[i] < nextBushId
      /\ \A i \in 1..Len(flowerIds) : 3000000 <= flowerIds[i] /\ flowerIds[i] < nextFlowerId
      /\ Range(treeIds) \cap Range(bushIds) = {}
      /\ Range(treeIds) \cap Range(flowerIds) = {}
      /\ Range(bushIds) \cap Range(flowerIds) = {}


\* The position useGameEngine starts from: the centre of the world.
startPosition ==
  [x |-> (engineConfig.worldWidth * PosScale) \div 2,
   y |-> (engineConfig.worldHeight * PosScale) \div 2]

\* The frames so far all ran with the one movement key key held and nothing else.
onlyKeyHeld(key) ==
  ticks > 0 /\ lastTick.keySets = 1 /\ lastTick.keys = {key}

\* displacement = movementSpeed * (sum of the clamped intervals) / 16.67
byClampedSum(displacement) ==
  displacement * 1667
    = engineConfig.movementSpeedHalves * lastTick.clampedSum * (PosScale \div 2)

\* C15: without obstacles, with one movement key held at every frame and the
\* target short of the world bounds, the target has moved along the key's axis
\* by movementSpeed * (sum of the clamped frame intervals) / 16.67, and not at
\* all along the other axis, whatever the number and the gaps of the frames.
C15_FrameRateIndependence ==
  collisionObjects = <<>> =>
    /\ \A key \in {"ArrowUp", "w"} :
         (onlyKeyHeld(key) /\ targetPosition.y > 0)
           => /\ byClampedSum(startPosition.y - targetPosition.y)
              /\ targetPosition.x = startPosition.x
    /\ \A key \in {"ArrowDown", "s"} :
         ( /\ onlyKeyHeld(key)
           /\ targetPosition.y < (engineConfig.worldHeight - engineConfig.characterSize) * PosScale )
           => /\ byClampedSum(targetPosition.y - startPosition.y)
              /\ targetPosition.x = startPosition.x
    /\ \A key \in {"ArrowLeft", "a"} :
         (onlyKeyHeld(key) /\ targetPosition.x > 0)
           => /\ byClampedSum(startPosition.x - targetPosition.x)
              /\ targetPosition.y = startPosition.y
    /\ \A key \in {"ArrowRight", "d"} :
         ( /\ onlyKeyHeld(key)
           /\ targetPosition.x < (engineConfig.worldWidth - engineConfig.characterSize) * PosScale )
           => /\ byClampedSum(targetPosition.x - startPosition.x)
              /\ targetPosition.y = startPosition.y

\* C15: three frames with "a" held and no obstacles, the first with the
\* fallback interval, one 16 ms and one 250 ms (clamped to 100 ms) after the
\* frame before, the target short of the left bound.
C15_Witness ==
  /\ collisionObjects = <<>>
  /\ onlyKeyHeld("a")
  /\ ticks = 3
  /\ lastTick.clampedSum = 1667 + 1600 + 10000
  /\ targetPosition.x > 0

\* The change of the target position by the last frame, on each axis.
lastStep ==
  [x |-> Abs(targetPosition.x - lastTick.targetBefore.x),
   y |-> Abs(targetPosition.y - lastTick.targetBefore.y)]

\* C16: whatever the gap to the frame before, a frame changes each coordinate
\* of the target position by at most movementSpeed * 100 / 16.67; the first
\* frame changes each by nothing or by movementSpeed * 16.67 / 16.67, the step
\* of an interval of 16.67 ms.
C16_DeltaTimeClamping ==
  ticks > 0 =>
    /\ \A step \in {lastStep.x, lastStep.y} :
         step * 1667 <= engineConfig.movementSpeedHalves * (100 * 100) * (PosScale \div 2)
    /\ ticks = 1 =>
         \A step \in {lastStep.x, lastStep.y} :
           step \in {0, engineConfig.movementSpeedHalves * (PosScale \div 2)}

\* C16: a frame 250 ms after the frame before has moved the target by exactly
\* movementSpeed * 100 / 16.67 along y.
C16_Witness ==
  /\ ticks > 1
  /\ lastTick.gap = 250
  /\ lastStep.y * 1667 = engineConfig.movementSpeedHalves * (100 * 100) * (PosScale \div 2)

\* The direction and the moving flag the next render shows: the last value
\* handed to setDirection / setIsMoving and not rendered yet, else the state.
shownDirection ==
  IF directionUpdates = <<>> THEN direction ELSE Last(directionUpdates)

shownMoving ==
  IF movingUpdates = <<>> THEN isMoving ELSE Last(movingUpdates)

\* The last direction, in the order up, down, left, right, whose key is held;
\* previous if none is.
lastHeldDirection(keys, previous) ==
  IF "ArrowRight" \in keys \/ "d" \in keys THEN "right"
  ELSE IF "ArrowLeft" \in keys \/ "a" \in keys THEN "left"
  ELSE IF "ArrowDown" \in keys \/ "s" \in keys THEN "down"
  ELSE IF "ArrowUp" \in keys \/ "w" \in keys THEN "up"
  ELSE previous

\* C17: after a frame the direction is the last one, in the order up, down,
\* left, right, whose key is held at that frame, and the direction before the
\* frame if no movement key is held.
C17_DirectionSelection ==
  [][ ticks' = ticks + 1
        => shownDirection' = lastHeldDirection(keysPressed, shownDirection) ]_vars

\* C18: after every frame isMoving is true exactly if a movement key was held
\* at that frame.
C18_MovingIffKeyHeld ==
  [][ ticks' = ticks + 1 => (shownMoving' <=> keysPressed # {}) ]_vars

\* The tentative coordinates of the last frame, for the keys up or down and
\* left or right it ran with.
lastTestY ==
  LET frameSpeed == frameSpeedOf(engineConfig, lastTick.clampedDeltaTime)
  IN  IF lastTick.keys \cap {"ArrowUp", "w"} # {}
      THEN Max(0, lastTick.targetBefore.y - frameSpeed)
      ELSE Min((engineConfig.worldHeight - engineConfig.characterSize) * PosScale,
               lastTick.targetBefore.y + frameSpeed)

lastTestX ==
  LET frameSpeed == frameSpeedOf(engineConfig, lastTick.clampedDeltaTime)
  IN  IF lastTick.keys \cap {"ArrowLeft", "a"} # {}
      THEN Max(0, lastTick.targetBefore.x - frameSpeed)
      ELSE Min((engineConfig.worldWidth - engineConfig.characterSize) * PosScale,
               lastTick.targetBefore.x + frameSpeed)

\* The last frame ran with one vertical and one horizontal key held.
oneKeyPerAxis ==
  /\ ticks > 0
  /\ Cardinality(lastTick.keys) = 2
  /\ Cardinality(lastTick.keys \cap {"ArrowUp", "w", "ArrowDown", "s"}) = 1
  /\ Cardinality(lastTick.keys \cap {"ArrowLeft", "a", "ArrowRight", "d"}) = 1

collides(x, y) == checkCollision(engineConfig, collisionObjects, x, y)

\* C19: in a frame with one vertical and one horizontal key held, a colliding
\* tentative y leaves y unchanged and x is still moved to its tentative value
\* if that is collision-free at the unchanged y; and a tentative x that
\* collides leaves x unchanged while a collision-free tentative y is kept.
C19_PerAxisCollision ==
  oneKeyPerAxis =>
    /\ collides(lastTick.targetBefore.x, lastTestY)
         => /\ targetPosition.y = lastTick.targetBefore.y
            /\ ~collides(lastTestX, lastTick.targetBefore.y)
                 => targetPosition.x = lastTestX
    /\ ~collides(lastTick.targetBefore.x, lastTestY)
         => /\ targetPosition.y = lastTestY
            /\ collides(lastTestX, lastTestY)
                 => targetPosition.x = lastTick.targetBefore.x

\* C19: a frame with one key of each axis whose move up ran into an obstacle
\* and whose horizontal move went through.
C19_Witness ==
  /\ oneKeyPerAxis
  /\ collisionObjects # <<>>
  /\ lastTestY # lastTick.targetBefore.y
  /\ collides(lastTick.targetBefore.x, lastTestY)
  /\ targetPosition.y = lastTick.targetBefore.y
  /\ targetPosition.x = lastTestX
  /\ lastTestX # lastTick.targetBefore.x

\* C22: when every in-bounds chunk within renderDistance of the position's
\* chunk is in the store, loadChunks(position) generates nothing, leaves the
\* three id counters alone and calls neither setLoadedChunks nor
\* setWorldElements, so that loadedChunks and worldElements stay as they are.
C22_LoadChunksNoOp ==
  \A p \in Positions \cup {<<worldWidth \div 2, worldHeight \div 2>>} :
    \E position \in {[x |-> p[1] * PosScale, y |-> p[2] * PosScale]} :
      cellsAround(position) \subseteq DOMAIN loadedChunks
        => \E w1 \in {loadChunks(World, position)} :
             /\ w1.chunkUpdates = chunkUpdates
             /\ w1.elementUpdates = elementUpdates
             /\ w1.ids = <<nextTreeId, nextBushId, nextFlowerId>>
             /\ w1.generated = <<>>
             /\ w1 = World

\* C22: the last loadChunks call, for a position away from the start, found
\* every chunk around it in the store and inserted none.
C22_Witness ==
  /\ lastLoad.inserted = {}
  /\ cellsAround(lastLoad.position) # {}
  /\ cellsAround(lastLoad.position) \subseteq lastLoad.before
  /\ lastLoad.position.x = 0
  /\ ~Pending

\* loadChunks(p), a render, updateWithServerChunks(batch), a render; and the
\* two calls the other way round.
loadThenMerge(w, position, batch) ==
  render(updateWithServerChunks(render(loadChunks(w, position)), batch))

mergeThenLoad(w, position, batch) ==
  render(loadChunks(render(updateWithServerChunks(w, batch)), position))

\* The chunks of the store whose elements are all in worldElements.
coveredChunks(w) ==
  { k \in DOMAIN w.loadedChunks :
      /\ Range(w.loadedChunks[k].trees) \subseteq Range(w.worldElements.trees)
      /\ Range(w.loadedChunks[k].bushes) \subseteq Range(w.worldElements.bushes)
      /\ Range(w.loadedChunks[k].flowers) \subseteq Range(w.worldElements.flowers) }

\* The batches of SpecWorld, and deliveries carrying the chunks of two of them.
JoinedBatches == Batches \cup { b1 \o b2 : b1 \in Batches, b2 \in Batches }

\* C21: from a store with every update rendered, for every position and every
\* server batch, loadChunks then updateWithServerChunks (a render between and
\* after) leaves the same chunk keys in loadedChunks, and worldElements
\* covering the same chunks, as updateWithServerChunks then loadChunks.
C21_MergeCommutesWithLoad ==
  Settled =>
    \A p \in Positions, batch \in JoinedBatches :
      \E position \in {[x |-> p[1] * PosScale, y |-> p[2] * PosScale]} :
        \E w1 \in {loadThenMerge(World, position, batch)} :
          \E w2 \in {mergeThenLoad(World, position, batch)} :
            /\ DOMAIN w1.loadedChunks = DOMAIN w2.loadedChunks
            /\ coveredChunks(w1) = coveredChunks(w2)

\* The elements of a species of the chunks whose box [x, x + size] x
\* [y, y + size], size 0 when absent, meets the rectangle of the camera widened
\* by 100 on every side.
intersecting(chunks, species, cameraPosition, width, height) ==
  UNION { { chunks[k][species][i] : i \in { j \in 1..Len(chunks[k][species]) :
              LET element == chunks[k][species][j]
                  size == IF "size" \in DOMAIN element THEN element.size ELSE 0
              IN  /\ element.x <= cameraPosition.x + width + 100
                  /\ element.x + size >= cameraPosition.x - 100
                  /\ element.y <= cameraPosition.y + height + 100
                  /\ element.y + size >= cameraPosition.y - 100 } } :
          k \in DOMAIN chunks }

\* C20: getVisibleElements(camera, w, h) returns exactly the trees, the bushes
\* and the flowers of the loaded chunks whose box meets the rectangle of the
\* camera widened by 100, none of a species missing.
C20_VisibilityQuery ==
  [][ viewVars' # viewVars
        => \A species \in {"trees", "bushes", "flowers"} :
             visibleElements'[species]
               = intersecting(loadedChunksRef, species, visibleCamera',
                              viewportWidth, viewportHeight) ]_vars

\* C23: in every frame the rendered position r is interpolated toward the
\* target t as that frame has updated it: when the squared distance of r and t
\* exceeds 0.1 the frame hands r + (t - r) * min(1, 0.15 * clampedDeltaTime /
\* 16.67) to setPlayerPosition.
C23_SmoothingFollowsTarget ==
  [][ ticks' = ticks + 1
        => positionUpdates'
             = IF tooFar(playerPosition, targetPosition')
               THEN Append(positionUpdates,
                           interpolate(playerPosition, targetPosition',
                                       lastTick'.clampedDeltaTime))
               ELSE positionUpdates ]_vars

\* C24: a frame with a movement key held advances the animation frame exactly
\* when the movement time accumulated without a stop since the last advance,
\* this frame included, exceeds 120 ms: the time of a movement before a stop
\* does not count.
C24_AnimationAdvance ==
  (ticks > 0 /\ lastTick.keys # {})
    => (lastTick.advanced <=> lastTick.runTime > 120 * 100)

\* The animation frame the next render shows.
shownFrame == applyFrameUpdates(animationFrame, frameUpdates)

\* C25: the animation frame is in 0..5, and after a frame in which no movement
\* key is held it is 0.
C25_AnimationResetAndRange ==
  [][ /\ shownFrame' \in 0..5
      /\ (ticks' = ticks + 1 /\ keysPressed = {}) => shownFrame' = 0 ]_vars

\* C14: with no movement key held and frames of one fixed gap, each rendered
\* before the next: the render of a frame's position update never takes the
\* rendered position further from the target on either axis; a frame that
\* finds the rendered position within the 0.1 threshold of the target queues no
\* position update; and the frame number SmoothBound of such a run finds it
\* within the threshold.
C14_Convergence ==
  [][ /\ ( /\ lastTick.idleTicks > 0 /\ lastTick.queued
           /\ positionUpdates # <<>> /\ positionUpdates' = <<>> )
         => /\ Abs(targetPosition.x - playerPosition'.x) <= Abs(targetPosition.x - playerPosition.x)
            /\ Abs(targetPosition.y - playerPosition'.y) <= Abs(targetPosition.y - playerPosition.y)
      /\ ( /\ ticks' = ticks + 1 /\ lastTick'.idleTicks > 0
           /\ ~tooFar(playerPosition, targetPosition) )
         => ( positionUpdates' = positionUpdates /\ ~lastTick'.queued )
      /\ ( ticks' = ticks + 1 /\ lastTick'.idleTicks >= SmoothBound )
         => ~lastTick'.queued
    ]_vars

\* C14: a run of SmoothBound frames without a key towards a target more than
\* ten world units above the start position has arrived: its last frame queued
\* no position update and the rendered position is within the threshold, short
\* of the target itself.
C14_Witness ==
  /\ lastTick.idleTicks >= SmoothBound
  /\ ~lastTick.queued
  /\ positionUpdates = <<>>
  /\ ~tooFar(playerPosition, targetPosition)
  /\ playerPosition # targetPosition
  /\ targetPosition.y < (MoveWorld \div 2 - 10) * PosScale

\* The k-th candidate position of a search that starts in generator state from:
\* two draws per candidate.
candidate(from, k, cSize, size) ==
  [x |-> floorRandom(afterDraws(from, 2 * k - 1), cSize - size),
   y |-> floorRandom(afterDraws(from, 2 * k), cSize - size)]

\* The k-th candidate of the search try passes the overlap test.
passes(try, k) ==
  \E c \in {candidate(try.from, k, placeArgs.cSize, try.size)} :
    ~checkCollisionWithExistingElements(c.x, c.y, try.size, try.others)

\* The searches that ended with a valid position, in order.
validTries == SelectSeq(placeTries, LAMBDA try : try.validPosition)

\* C26: every position search of generateTrees and generateBushes tries at most
\* 50 candidates; it ends at the first candidate that passes the overlap test,
\* and the element is pushed there; when all 50 candidates fail nothing is
\* pushed; the result never has more elements than requested.
C26_BoundedPlacement ==
  /\ \A i \in 1..Len(placeTries) :
       \E try \in {placeTries[i]} :
         /\ try.attempts \in 1..50
         /\ try.validPosition <=> \E k \in 1..50 : passes(try, k)
         /\ try.validPosition =>
              /\ passes(try, try.attempts)
              /\ \A k \in 1..(try.attempts - 1) : ~passes(try, k)
              /\ [x |-> try.x, y |-> try.y]
                   = candidate(try.from, try.attempts, placeArgs.cSize, try.size)
         /\ ~try.validPosition => try.attempts = 50
  /\ Len(placeState.placed) = Len(validTries)
  /\ \A j \in 1..Len(validTries) :
       /\ placeState.placed[j].x = validTries[j].x
       /\ placeState.placed[j].y = validTries[j].y
       /\ placeState.placed[j].size = validTries[j].size
  /\ Len(placeTries) = placeState.i
  /\ Len(placeState.placed) <= placeArgs.count

\* An element omitted after 50 failed candidates, and a later element placed
\* after more than one candidate.
C26_Witness ==
  \E i, j \in 1..Len(placeTries) :
    /\ i < j
    /\ ~placeTries[i].validPosition /\ placeTries[i].attempts = 50
    /\ placeTries[j].validPosition /\ placeTries[j].attempts > 1
    /\ Len(placeState.placed) < placeState.i


\* The point is at least size/2 from the centre (x + size/2, y + size/2) of the
\* tree or bush (lengths doubled, squared).
clearOf(point, element) ==
  (2 * point.x - (2 * element.x + element.size)) * (2 * point.x - (2 * element.x + element.size))
    + (2 * point.y - (2 * element.y + element.size)) * (2 * point.y - (2 * element.y + element.size))
    >= element.size * element.size

\* The point generateFlowers draws for its i-th flower in chunk (chunkX, chunkY):
\* three draws per flower from seed chunkSeed + 2, the first two for the point.
flowerPoint(chunkX, chunkY, i) ==
  [x |-> chunkX * chunkSize
           + floorRandom(afterDraws(chunkX * 10000 + chunkY + 2, 3 * i - 2), chunkSize),
   y |-> chunkY * chunkSize
           + floorRandom(afterDraws(chunkX * 10000 + chunkY + 2, 3 * i - 1), chunkSize)]

\* The points drawn for the flowers of each chunk of the world, in order (the
\* table is evaluated once).
drawnFlowerPoints ==
  [c \in ChunkCoords \X ChunkCoords |->
     [i \in 1..flowerCountTable[c[1] + 1][c[2] + 1] |-> flowerPoint(c[1], c[2], i)]] @@ <<>>

flowerPoints(chunk) == drawnFlowerPoints[<<chunk.x, chunk.y>>]

pointOf(element) == [x |-> element.x, y |-> element.y]

\* C27: in every chunk generateChunk returns every flower is at least size/2
\* from the centre of every tree and every bush of the chunk, and the flowers
\* are the drawn points that satisfy this, in the order drawn: a point that
\* does not is omitted.
C27_FlowerExclusion ==
  genCalls > 0 =>
    \E elements \in {sized(genChunk)} :
      /\ \A f \in 1..Len(genChunk.flowers), e \in 1..Len(elements) :
           clearOf(genChunk.flowers[f], elements[e])
      /\ [f \in 1..Len(genChunk.flowers) |-> pointOf(genChunk.flowers[f])]
           = SelectSeq(flowerPoints(genChunk),
                       LAMBDA point : \A e \in 1..Len(elements) : clearOf(point, elements[e]))

\* A generated chunk with a point omitted on a tree, a point omitted on a bush,
\* and flowers placed.
C27_Witness ==
  /\ genCalls > 0
  /\ Len(genChunk.flowers) > 0
  /\ \E i \in DOMAIN flowerPoints(genChunk), t \in 1..Len(genChunk.trees) :
       ~clearOf(flowerPoints(genChunk)[i], genChunk.trees[t])
  /\ \E i \in DOMAIN flowerPoints(genChunk), b \in 1..Len(genChunk.bushes) :
       ~clearOf(flowerPoints(genChunk)[i], genChunk.bushes[b])

\* The ids of all elements of the chunks.
chunkIds(chunks) ==
  UNION { {chunks[k].trees[i].id : i \in 1..Len(chunks[k].trees)}
            \cup {chunks[k].bushes[i].id : i \in 1..Len(chunks[k].bushes)}
            \cup {chunks[k].flowers[i].id : i \in 1..Len(chunks[k].flowers)} :
          k \in 1..Len(chunks) }

\* The number of elements of the chunks.
RECURSIVE chunkElements(_)
chunkElements(chunks) ==
  IF chunks = <<>> THEN 0
  ELSE Len(Head(chunks).trees) + Len(Head(chunks).bushes) + Len(Head(chunks).flowers)
         + chunkElements(Tail(chunks))

\* C28 (as claimed): the elements of a batch of generateMockChunks have
\* pairwise distinct ids, across species and across chunks, and none of them is
\* an id the local generator gives to the elements of the first chunk it
\* generates.
C28_ServerIdsDistinct ==
  /\ Cardinality(chunkIds(mockChunks)) = chunkElements(mockChunks)
  /\ \A cx \in ChunkCoords, cy \in ChunkCoords :
       chunkIds(mockChunks)
         \cap chunkIds(<<generateChunk(cx, cy, <<1000000, 2000000, 3000000>>)>>) = {}

\* The times of the updatePosition calls, in order.
poseCalls == SelectSeq(poseEffects, LAMBDA run : run.sent)

\* C29: two successive updatePosition calls of the position update effect are
\* more than 100 ms apart.
C29_ThrottledPose ==
  \A i \in 1..(Len(poseCalls) - 1) : poseCalls[i + 1].at - poseCalls[i].at > 100

\* Two calls 101 ms apart, with a run of the effect between them that the
\* throttle stopped.
C29_Witness ==
  \E i, j, k \in 1..Len(poseEffects) :
    /\ i < j /\ j < k
    /\ poseEffects[i].sent /\ poseEffects[k].sent
    /\ ~poseEffects[j].sent
    /\ poseEffects[k].at - poseEffects[i].at = 101

\* The rectangle the claim gives for the player at (x, y), in 1/PosScale.
hitboxAt(x, y) ==
  [left |-> x + 16 * PosScale,
   right |-> x + engineConfig.characterSize * PosScale - 16 * PosScale,
   top |-> y + (engineConfig.characterSize * PosScale) \div 2,
   bottom |-> y + engineConfig.characterSize * PosScale - 8 * PosScale]

\* The obstacle in 1/PosScale.
scaled(o) ==
  [left |-> o.left * PosScale, right |-> o.right * PosScale,
   top |-> o.top * PosScale, bottom |-> o.bottom * PosScale]

\* The two rectangles share an area: on each axis the later start is before
\* the earlier end.
shareArea(a, b) ==
  /\ Max(a.left, b.left) < Min(a.right, b.right)
  /\ Max(a.top, b.top) < Min(a.bottom, b.bottom)

outsideWorld(a) ==
  \/ a.left < 0 \/ a.top < 0
  \/ a.right > engineConfig.worldWidth * PosScale
  \/ a.bottom > engineConfig.worldHeight * PosScale

\* C30: checkCollision(x, y) is true exactly when the player's hitbox shares
\* an area with some obstacle or reaches outside the world; a hitbox that only
\* touches obstacles and the world's edges does not collide.
C30_HitboxTest ==
  hitInput.called =>
    \E box \in {hitboxAt(hitInput.x, hitInput.y)} :
      /\ hitResult <=>
           \/ \E i \in 1..Len(collisionObjects) : shareArea(box, scaled(collisionObjects[i]))
           \/ outsideWorld(box)
      /\ ( /\ \A i \in 1..Len(collisionObjects) :
                \E o \in {scaled(collisionObjects[i])} :
                  \/ box.right <= o.left \/ box.left >= o.right
                  \/ box.bottom <= o.top \/ box.top >= o.bottom
           /\ box.left >= 0 /\ box.top >= 0
           /\ box.right <= engineConfig.worldWidth * PosScale
           /\ box.bottom <= engineConfig.worldHeight * PosScale )
         => ~hitResult

\* A hitbox whose right edge lies on an obstacle's left edge, beside it, and
\* whose bottom edge lies on another obstacle's top edge, above it: no
\* collision.
C30_Witness ==
  /\ hitInput.called
  /\ ~hitResult
  /\ \E box \in {hitboxAt(hitInput.x, hitInput.y)} :
       /\ \E i \in 1..Len(collisionObjects) :
            \E o \in {scaled(collisionObjects[i])} :
              box.right = o.left /\ box.top < o.bottom /\ box.bottom > o.top
       /\ \E i \in 1..Len(collisionObjects) :
            \E o \in {scaled(collisionObjects[i])} :
              box.bottom = o.top /\ box.left < o.right /\ box.right > o.left

\* C31: with a fixed obstacle list and an initial target position that does
\* not collide, the target position never collides, whatever keys are held in
\* the frames.
C31_TargetNeverCollides ==
  ~collides(targetPosition.x, targetPosition.y)

\* A frame with one key of each axis whose vertical move went through and whose
\* horizontal move, which would have put the target into an obstacle, did not.
C31_Witness ==
  /\ oneKeyPerAxis
  /\ collisionObjects # <<>>
  /\ targetPosition.y = lastTestY
  /\ lastTestY # lastTick.targetBefore.y
  /\ lastTestX # lastTick.targetBefore.x
  /\ collides(lastTestX, lastTestY)
  /\ ~checkCollision(engineConfig, <<>>, lastTestX, lastTestY)
  /\ targetPosition.x = lastTick.targetBefore.x

\* The position lies where the character fits into the world.
inWorld(position) ==
  /\ 0 <= position.x
  /\ position.x <= (engineConfig.worldWidth - engineConfig.characterSize) * PosScale
  /\ 0 <= position.y
  /\ position.y <= (engineConfig.worldHeight - engineConfig.characterSize) * PosScale

\* c lies between a and b, ends included.
between(a, c, b) == (a <= c /\ c <= b) \/ (b <= c /\ c <= a)

\* C32: the rendered position and every position handed to setPlayerPosition
\* lie in the world, 0 <= x <= worldWidth - characterSize and likewise y; and
\* the position a frame hands to setPlayerPosition lies, on each axis, between
\* the rendered position and the target position the frame interpolates
\* toward, so no farther from it and not beyond it.
C32_RenderedPositionInWorld ==
  [][ /\ inWorld(playerPosition) /\ inWorld(playerPosition')
      /\ \A i \in 1..Len(positionUpdates') : inWorld(positionUpdates'[i])
      /\ (ticks' = ticks + 1 /\ positionUpdates' # positionUpdates)
           => /\ between(playerPosition.x, Last(positionUpdates').x, targetPosition.x)
              /\ between(playerPosition.y, Last(positionUpdates').y, targetPosition.y)
    ]_vars

\* A frame, run with a key held, has handed over a position strictly between
\* the rendered position and a target that lies at the world's right edge.
C32_Witness ==
  /\ ticks > 1
  /\ lastTick.keys # {}
  /\ positionUpdates # <<>>
  /\ lastTick.targetBefore.x = (engineConfig.worldWidth - engineConfig.characterSize) * PosScale
  /\ playerPosition.x < Last(positionUpdates).x
  /\ Last(positionUpdates).x < lastTick.targetBefore.x

\* The pose last passed to updatePosition is the player's pose.
lastPoseSent == poseCalls # <<>> /\ Last(poseCalls).isMoving = isMoving

\* C33 (as claimed): if from some moment on the player stays logged in and
\* connected, then from some moment on the pose last passed to updatePosition
\* is the player's pose.
C33_LastPoseSent ==
  <>[](loggedIn /\ isConnected) => <>[]lastPoseSent

\* C34 (as claimed): with mockMode off, from disconnect() on the connected
\* service until the user's next connect(), no WebSocket is created, no
\* timer is set and isConnected stays false.
C34_DisconnectIsFinal ==
  [][(~service.mockMode /\ disconnected /\ disconnected')
       => /\ Len(webSockets') = Len(webSockets)
          /\ Len(timeouts') = Len(timeouts)
          /\ ~service'.isConnected]_vars

\* The reconnect timers that are pending.
pendingReconnects ==
  {t \in DOMAIN timeouts : timeouts[t].pending /\ timeouts[t].callback = "reconnect"}

\* The delays of the reconnect timers, in the order they were set.
reconnectDelays == {2000, 4000, 8000, 16000, 30000}

\* C37: with mockMode off, reconnectAttempts is at most 5, every reconnect
\* timer has the delay min(1000 * 2^attempt, 30000) of one of the attempts
\* 1 to 5, the delay of the timer just set is that of the attempt just
\* counted, at most one reconnect timer is pending, and a socket that opens
\* leaves reconnectAttempts at 0.
C37_BoundedReconnection ==
  [][~service.mockMode =>
       /\ service'.reconnectAttempts \in 0..maxReconnectAttempts
       /\ \A t \in DOMAIN timeouts' :
            timeouts'[t].callback = "reconnect" => timeouts'[t].delay \in reconnectDelays
       /\ Len(timeouts') > Len(timeouts) =>
            /\ Len(timeouts') = Len(timeouts) + 1
            /\ service'.reconnectAttempts = service.reconnectAttempts + 1
            /\ \/ /\ service'.reconnectAttempts < 5
                  /\ Last(timeouts').delay = 1000 * 2^(service'.reconnectAttempts)
               \/ /\ service'.reconnectAttempts = 5
                  /\ Last(timeouts').delay = 30000
       /\ Cardinality(pendingReconnects') <= 1
       /\ (\E i \in DOMAIN webSockets :
             webSockets[i].readyState = "connecting" /\ webSockets'[i].readyState = "open")
            => service'.reconnectAttempts = 0]_vars

\* The fifth attempt is counted and its timer is pending, the timers of
\* earlier attempts are cleared or have fired, the count had been reset by
\* an open before, and a socket created by the reconnect timer has closed.
C37_Witness ==
  /\ ~service.mockMode
  /\ service.reconnectAttempts = maxReconnectAttempts
  /\ Len(timeouts) > 5
  /\ pendingReconnects = {Len(timeouts)}
  /\ Last(timeouts).delay = 30000
  /\ \E i \in DOMAIN webSockets : webSockets[i].byTimer /\ webSockets[i].readyState = "closed"
                                   /\ webSockets[i].settled

\* C35 (as claimed): when a socket delivers player:joined for the local
\* player in answer to the connect() call that created it (the call's
\* promise is pending and the socket is the client's), the client is
\* connected afterwards, the promise is resolved, and the join handlers are
\* not called.
C35_ReconnectRejoins ==
  [][answered' # 0
       => /\ isConnected'
          /\ ioSockets'[answered'].promise = "resolved"
          /\ handlerCalls'.join = handlerCalls.join]_vars

\* The ids the server has given the local player.
ownIds == {ioSockets[i].id : i \in DOMAIN ioSockets} \ {""}

\* C36 (as claimed): the join and move handlers are never called with an
\* id of the local player, and RemotePlayers never holds one.
C36_LocalNeverRemote ==
  /\ handlerCalls.join \cap ownIds = {}
  /\ handlerCalls.move \cap ownIds = {}
  /\ players \cap ownIds = {}

\* Coordinate c of an element of extent size lies in the chunk that starts
\* at origin: origin <= c and c + size < origin + chunkSize.
insideChunk(c, size, origin) == origin <= c /\ c + size < origin + chunkSize

\* C38: every tree and bush of a generated chunk lies with its whole size
\* inside the chunk, and every flower's point lies inside the chunk.
C38_ElementsInsideChunk ==
  genCalls > 0 =>
    \E originX \in {genChunk.x * chunkSize}, originY \in {genChunk.y * chunkSize},
       elements \in {sized(genChunk)} :
      /\ \A e \in 1..Len(elements) :
           /\ insideChunk(elements[e].x, elements[e].size, originX)
           /\ insideChunk(elements[e].y, elements[e].size, originY)
      /\ \A f \in 1..Len(genChunk.flowers) :
           /\ insideChunk(genChunk.flowers[f].x, 0, originX)
           /\ insideChunk(genChunk.flowers[f].y, 0, originY)

\* A chunk away from the world's origin with a tree, a bush and a flower
\* each within ten units of the chunk's far edge.
C38_Witness ==
  /\ genCalls > 0
  /\ genChunk.x > 0 /\ genChunk.y > 0
  /\ \E t \in 1..Len(genChunk.trees) :
       genChunk.trees[t].x + genChunk.trees[t].size >= (genChunk.x + 1) * chunkSize - 10
  /\ \E b \in 1..Len(genChunk.bushes) :
       genChunk.bushes[b].y + genChunk.bushes[b].size >= (genChunk.y + 1) * chunkSize - 10
  /\ \E f \in 1..Len(genChunk.flowers) :
       genChunk.flowers[f].x >= (genChunk.x + 1) * chunkSize - 10

====
